---- MODULE Spec2Model ----
(***************************************************************************)
(* watson-mcp-router: a model of the child stdio transport                 *)
(* (CustomStdioClientTransport), the child supervisor (ServerManager) and  *)
(* the outward registration / proxy handlers of main().                    *)
(*                                                                         *)
(* Three specifications share this module:                                 *)
(*   SpecFraming  the inbound 'data' handler of the transport, fed with a  *)
(*                byte stream cut into arbitrary chunks;                   *)
(*   Spec         startup, discovery, child exit, rebuild, registration,   *)
(*                the proxy handlers and shutdown;                         *)
(*   SpecHttp     the /mcp endpoint and its sessions, from the router      *)
(*                listening.                                               *)
(* Text is modelled as sequences of characters, every character a string.  *)
(***************************************************************************)
EXTENDS Integers, Sequences, FiniteSets, TLC

VARIABLES
    \* ---- CustomStdioClientTransport (inbound side) ----
    lines,          \* the lines the child writes, each followed by "\n"
    wire,           \* bytes written by the child, not yet emitted as 'data'
    _buffer,        \* CustomStdioClientTransport._buffer
    received,       \* messages handed to _onmessageCallback, in order
    errorCount,     \* number of _onerrorCallback invocations
    \* ---- CustomStdioClientTransport (outbound side) ----
    _output,        \* CustomStdioClientTransport._output (the child's stdin)
    sends,          \* the send() calls made so far and their promises
    \* ---- ServerManager ----
    config,         \* ServerManager.config (FALSE until loadConfig)
    childCaps,      \* what each child answers to its three list calls
    clientHasName,  \* whether reading client.name yields the alias
    spawnedServers, \* keys of ServerManager.spawnedServers
    connected,      \* children whose client.connect() has resolved
    closed,         \* children whose process has emitted 'close'
    killed,         \* children that were sent process.kill()
    unifiedTools,
    unifiedResources,
    unifiedPrompts,
    pendingRebuild, \* outstanding list calls of rebuildUnifiedCollections
    spawnFailed,    \* children whose spawn() failed
    listOutcome,    \* how the list calls of the current child ended
    \* ---- schemas of one discovery response ----
    heap,            \* the objects allocated, by reference
    responseSchemas, \* tool.inputSchema of each tool of the response
    storedSchemas,   \* inputSchema of the entries pushed for them
    insertedValues,  \* value each schema had when its entry was pushed
    \* ---- conversion of one tool's schema for registration ----
    toolInputSchema, \* toolMetadata.inputSchema
    inputShape,      \* what registerTool was given as inputSchema
    validated,       \* the call made on the tool and what became of it
    \* ---- main() ----
    pc,             \* where main() stands
    idx,            \* position of the for-in loop of spawnServers
    tools,          \* locals of the current loop iteration
    resources,
    prompts,
    exitCode,
    \* ---- outward McpServer ----
    registeredTools,
    registeredResources,
    registeredPrompts,
    \* ---- proxy handlers ----
    exchange,       \* the downstream request in progress or just answered
    \* ---- HTTP endpoint /mcp ----
    transports,     \* own entries of the transports object of main()
    httpTransports, \* the StreamableHTTPServerTransport objects created
    lastHttp,       \* the HTTP request handled last and its answer
    mcpServerTransport  \* transport the outward server is bound to, or 0

transportVars == <<lines, wire, _buffer, received, errorCount, _output,
                   sends>>

managerVars == <<config, childCaps, clientHasName, spawnedServers, connected,
                 closed, killed, unifiedTools, unifiedResources, unifiedPrompts,
                 pendingRebuild>>

mainVars == <<pc, idx, tools, resources, prompts, exitCode>>

serverVars == <<registeredTools, registeredResources, registeredPrompts>>

handlerVars == <<exchange>>

httpVars ==
    <<transports, httpTransports, lastHttp, mcpServerTransport>>

discoveryVars == <<spawnFailed, listOutcome>>

convertVars == <<toolInputSchema, inputShape, validated>>

schemaVars ==
    <<heap, responseSchemas, storedSchemas, insertedValues, convertVars>>

routerVars == <<managerVars, mainVars, serverVars, handlerVars, httpVars,
                discoveryVars, schemaVars>>

vars == <<transportVars, routerVars>>

None == "none"

\* exitCode while the router process has not exited.
Running == -1

(***************************************************************************)
(* Bounds.                                                                 *)
(***************************************************************************)
MaxLines == 2
MaxChunk == 3
MaxSends == 4
MaxWait == 2
MaxTools == 2
HighWaterMark == 2

(***************************************************************************)
(* Characters and bytes.  "E9" is a two-byte UTF-8 character (U+00E9),     *)
(* "FFFD" the replacement character a decoder emits for an incomplete or   *)
(* stray byte sequence.  Every other character is one ASCII byte.  The     *)
(* members of a JSON object are lexemes of ASCII text, kept atomic:        *)
(*   "J"   "jsonrpc":"2.0"                                                 *)
(*   "Rn"  "result":{"structuredContent":null}                             *)
(*   "Ro"  "result":{"structuredContent":{}}                               *)
(*   "Rd"  "result":{"data":null}                                          *)
(*   "Sn"  "structuredContent":null   (top level, outside result)          *)
(*   "t", "E9", "FFFD", " "   characters of a string value                 *)
(***************************************************************************)
LF == "\n"
Whitespace == {" "}
ResultLexemes == {"Rn", "Ro", "Rd"}
TextChars == {"t", "E9", "FFFD", " "}

RECURSIVE Flatten(_)
Flatten(ss) == IF ss = <<>> THEN <<>> ELSE Head(ss) \o Flatten(Tail(ss))

\* Buffer bytes of one character (what the child's write produces).
Utf8Bytes(c) ==
    IF c = "E9" THEN <<"C3", "A9">>
    ELSE IF c = "FFFD" THEN <<"EF", "BF", "BD">>
    ELSE <<c>>

Utf8Encode(s) == Flatten([i \in 1..Len(s) |-> Utf8Bytes(s[i])])

\* data.toString(): each chunk is decoded on its own, an incomplete or stray
\* sequence becomes U+FFFD.
RECURSIVE BufferToString(_)
BufferToString(b) ==
    IF b = <<>> THEN <<>>
    ELSE IF Head(b) = "C3"
         THEN IF Len(b) >= 2 /\ b[2] = "A9"
              THEN <<"E9">> \o BufferToString(SubSeq(b, 3, Len(b)))
              ELSE <<"FFFD">> \o BufferToString(Tail(b))
    ELSE IF Head(b) = "EF"
         THEN IF Len(b) >= 3 /\ b[2] = "BF" /\ b[3] = "BD"
              THEN <<"FFFD">> \o BufferToString(SubSeq(b, 4, Len(b)))
              ELSE <<"FFFD">> \o BufferToString(Tail(b))
    ELSE IF Head(b) \in {"A9", "BF", "BD"}
         THEN <<"FFFD">> \o BufferToString(Tail(b))
    ELSE <<Head(b)>> \o BufferToString(Tail(b))

\* String.prototype.indexOf('\n'), 1-based; 0 when absent.
RECURSIVE IndexOfFrom(_, _, _)
IndexOfFrom(s, c, i) ==
    IF i > Len(s) THEN 0
    ELSE IF s[i] = c THEN i
    ELSE IndexOfFrom(s, c, i + 1)

IndexOf(s, c) == IndexOfFrom(s, c, 1)

\* String.prototype.trim()
RECURSIVE TrimLeft(_)
TrimLeft(s) ==
    IF s # <<>> /\ Head(s) \in Whitespace THEN TrimLeft(Tail(s)) ELSE s

RECURSIVE TrimRight(_)
TrimRight(s) ==
    IF s # <<>> /\ s[Len(s)] \in Whitespace
    THEN TrimRight(SubSeq(s, 1, Len(s) - 1))
    ELSE s

Trim(s) == TrimRight(TrimLeft(s))

(***************************************************************************)
(* JSON objects: [jsonrpc, result, topSc, text].  JSON.stringify writes    *)
(* the members in a fixed order between braces; JSON.parse accepts exactly *)
(* the texts of that shape and throws on anything else.                    *)
(***************************************************************************)
JsonStringify(o) ==
    <<"{">>
    \o (IF o.jsonrpc THEN <<"J">> ELSE <<>>)
    \o (IF o.result = None THEN <<>> ELSE <<o.result>>)
    \o (IF o.topSc THEN <<"Sn">> ELSE <<>>)
    \o o.text
    \o <<"}">>

\* The members of a text between its braces, consumed left to right.
AfterJ(m) == IF m # <<>> /\ Head(m) = "J" THEN Tail(m) ELSE m
AfterR(m) ==
    IF AfterJ(m) # <<>> /\ Head(AfterJ(m)) \in ResultLexemes
    THEN Tail(AfterJ(m)) ELSE AfterJ(m)
AfterS(m) ==
    IF AfterR(m) # <<>> /\ Head(AfterR(m)) = "Sn"
    THEN Tail(AfterR(m)) ELSE AfterR(m)

Members(line) == SubSeq(line, 2, Len(line) - 1)

IsJsonText(line) ==
    /\ Len(line) >= 2
    /\ line[1] = "{"
    /\ line[Len(line)] = "}"
    /\ \A i \in 1..Len(AfterS(Members(line))) :
           AfterS(Members(line))[i] \in TextChars

JsonParse(line) ==
    LET m == Members(line) IN
    [jsonrpc |-> (m # <<>> /\ Head(m) = "J"),
     result  |-> IF AfterJ(m) # <<>> /\ Head(AfterJ(m)) \in ResultLexemes
                 THEN Head(AfterJ(m)) ELSE None,
     topSc   |-> (AfterR(m) # <<>> /\ Head(AfterR(m)) = "Sn"),
     text    |-> AfterS(m)]

\* A variant that rewrites the null of every object, JSON-RPC 2.0 or not.
CorrectAnyStructuredContent(message) ==
    IF message.result = "Rn"
    THEN [message EXCEPT !.result = "Ro"]
    ELSE message

\* message.result.structuredContent === null  ->  {}
CorrectStructuredContent(message) ==
    IF message.jsonrpc /\ message.result = "Rn"
    THEN [message EXCEPT !.result = "Ro"]
    ELSE message

\* The while loop of the 'data' handler over the buffer.
RECURSIVE ProcessBuffer(_, _, _)
ProcessBuffer(buf, recv, errs) ==
    LET newlineIndex == IndexOf(buf, LF) IN
    IF newlineIndex = 0
    THEN [buffer |-> buf, received |-> recv, errors |-> errs]
    ELSE LET line == Trim(SubSeq(buf, 1, newlineIndex - 1))
             rest == SubSeq(buf, newlineIndex + 1, Len(buf))
         IN  IF Len(line) = 0
             THEN ProcessBuffer(rest, recv, errs)
             ELSE IF IsJsonText(line)
             THEN ProcessBuffer(rest,
                      Append(recv, CorrectStructuredContent(JsonParse(line))),
                      errs)
             ELSE ProcessBuffer(rest, recv, errs + 1)

(***************************************************************************)
(* Inputs of the framing specification.                                    *)
(***************************************************************************)
InputObjects ==
    { [jsonrpc |-> TRUE,  result |-> None, topSc |-> FALSE, text |-> <<"t">>],
      [jsonrpc |-> TRUE,  result |-> None, topSc |-> FALSE, text |-> <<"E9">>],
      [jsonrpc |-> TRUE,  result |-> "Rn", topSc |-> FALSE, text |-> <<>>],
      [jsonrpc |-> TRUE,  result |-> "Rd", topSc |-> TRUE,  text |-> <<>>],
      [jsonrpc |-> FALSE, result |-> "Rn", topSc |-> FALSE, text |-> <<" ">>] }

MalformedLines == { <<"{", "t">>, <<"t", "}">> }
BlankLines == { <<>>, <<" ">> }

InputLines ==
    {JsonStringify(o) : o \in InputObjects} \cup MalformedLines \cup BlankLines

LineSeqs == UNION {[1..n -> InputLines] : n \in 1..MaxLines}

WireOf(ls) == Flatten([i \in 1..Len(ls) |-> Utf8Encode(ls[i] \o <<LF>>)])

(***************************************************************************)
(* State of the transport before any byte has arrived.                     *)
(***************************************************************************)
TransportInit(ls) ==
    /\ lines = ls
    /\ wire = WireOf(ls)
    /\ _buffer = <<>>
    /\ received = <<>>
    /\ errorCount = 0
    /\ _output = [written |-> <<>>, buffered |-> 0, needDrain |-> FALSE,
                  writable |-> TRUE, drains |-> 0]
    /\ sends = <<>>

\* A variant in which the first parse error stops the transport: chunks
\* arriving afterwards are dropped.
OnDataStopsAfterError(k) ==
    /\ k \in 1..MaxChunk
    /\ k <= Len(wire)
    /\ LET data == SubSeq(wire, 1, k)
           out  == IF errorCount > 0
                   THEN [buffer |-> _buffer, received |-> received,
                         errors |-> errorCount]
                   ELSE ProcessBuffer(_buffer \o BufferToString(data),
                                      received, errorCount)
       IN  /\ wire' = SubSeq(wire, k + 1, Len(wire))
           /\ _buffer' = out.buffer
           /\ received' = out.received
           /\ errorCount' = out.errors
    /\ UNCHANGED <<lines, _output, sends, routerVars>>

\* this._input.on('data', ...): one chunk of at most MaxChunk bytes.
OnData(k) ==
    /\ k \in 1..MaxChunk
    /\ k <= Len(wire)
    /\ LET data == SubSeq(wire, 1, k)
           out  == ProcessBuffer(_buffer \o BufferToString(data),
                                 received, errorCount)
       IN  /\ wire' = SubSeq(wire, k + 1, Len(wire))
           /\ _buffer' = out.buffer
           /\ received' = out.received
           /\ errorCount' = out.errors
    /\ UNCHANGED <<lines, _output, sends, routerVars>>

(***************************************************************************)
(* The outbound side: send() and close() on the child's stdin, a Writable. *)
(* The stream buffers what write() is given; write() returns false when    *)
(* the buffer has reached the high-water mark (counted in chunks), and the *)
(* stream emits 'drain' when a buffer that had been reported full has      *)
(* emptied, unless end() was called meanwhile.                             *)
(***************************************************************************)
SendMessages ==
    { [jsonrpc |-> TRUE, result |-> None, topSc |-> FALSE, text |-> <<"t">>],
      [jsonrpc |-> TRUE, result |-> "Rd", topSc |-> FALSE, text |-> <<>>] }

\* A variant of send that resolves at once whatever write() returned.
SendIgnoresBackpressure(message) ==
    /\ Len(sends) < MaxSends
    /\ IF ~_output.writable
       THEN /\ sends' = Append(sends,
                           [message |-> message, wrote |-> FALSE,
                            canWrite |-> FALSE, state |-> "rejected",
                            drainsAtCall |-> _output.drains,
                            drainsAtResolve |-> 0])
            /\ _output' = _output
       ELSE /\ _output' =
                   [_output EXCEPT
                       !.written = Append(@, JsonStringify(message) \o <<LF>>),
                       !.buffered = @ + 1,
                       !.needDrain = @ \/ (_output.buffered + 1 >= HighWaterMark)]
            /\ sends' = Append(sends,
                           [message |-> message, wrote |-> TRUE,
                            canWrite |->
                                (_output.buffered + 1 < HighWaterMark),
                            state |-> "resolved",
                            drainsAtCall |-> _output.drains,
                            drainsAtResolve |-> _output.drains])
    /\ UNCHANGED <<lines, wire, _buffer, received, errorCount, routerVars>>

\* CustomStdioClientTransport.send
Send(message) ==
    /\ Len(sends) < MaxSends
    /\ IF ~_output.writable
       THEN /\ sends' = Append(sends,
                           [message |-> message, wrote |-> FALSE,
                            canWrite |-> FALSE, state |-> "rejected",
                            drainsAtCall |-> _output.drains,
                            drainsAtResolve |-> 0])
            /\ _output' = _output
       ELSE LET canWrite == _output.buffered + 1 < HighWaterMark IN
            /\ _output' =
                   [_output EXCEPT
                       !.written = Append(@, JsonStringify(message) \o <<LF>>),
                       !.buffered = @ + 1,
                       !.needDrain = @ \/ ~canWrite]
            /\ sends' = Append(sends,
                           [message |-> message, wrote |-> TRUE,
                            canWrite |-> canWrite,
                            state |-> IF canWrite
                                      THEN "resolved" ELSE "waiting",
                            drainsAtCall |-> _output.drains,
                            drainsAtResolve |->
                                IF canWrite THEN _output.drains ELSE 0])
    /\ UNCHANGED <<lines, wire, _buffer, received, errorCount, routerVars>>

\* The stream hands one buffered chunk to the pipe.  When that empties a
\* buffer reported full, 'drain' is emitted and every once('drain')
\* listener runs: the waiting promises resolve.
OutputFlush ==
    /\ _output.buffered > 0
    /\ LET drain == /\ _output.buffered = 1
                    /\ _output.needDrain
                    /\ _output.writable
       IN  /\ _output' =
                  [_output EXCEPT
                      !.buffered = @ - 1,
                      !.needDrain = IF drain THEN FALSE ELSE @,
                      !.drains = IF drain THEN @ + 1 ELSE @]
           /\ sends' =
                  IF drain
                  THEN [i \in 1..Len(sends) |->
                           IF sends[i].state = "waiting"
                           THEN [sends[i] EXCEPT
                                    !.state = "resolved",
                                    !.drainsAtResolve = _output.drains + 1]
                           ELSE sends[i]]
                  ELSE sends
    /\ UNCHANGED <<lines, wire, _buffer, received, errorCount, routerVars>>

\* CustomStdioClientTransport.close: this._output.end()
Close ==
    /\ _output.writable
    /\ _output' = [_output EXCEPT !.writable = FALSE]
    /\ UNCHANGED <<lines, wire, _buffer, received, errorCount, sends,
                   routerVars>>

(***************************************************************************)
(* Configuration and children of the router specification.                 *)
(* mcpServers, in file order: "a", "d" (disabled) and "a_b".               *)
(***************************************************************************)
ConfigOrder == <<"a", "d", "a_b">>
Disabled == {"d"}
Children == {"a", "a_b"}
Kinds == {"tool", "resource", "prompt"}

\* The type member of each server's entry in mcp.json.  The file is parsed
\* and cast to McpRouterConfig without validation, and spawnServers reads
\* disabled, command, args, env and cwd of an entry, never its type.
ConfigType(alias) == IF alias = "a_b" THEN "sse" ELSE "stdio"

\* A list response: its field is an array of capabilities, or is not one.
ListReplies(items) ==
    {[isArray |-> TRUE, items |-> items], [isArray |-> FALSE, items |-> <<>>]}

\* What a child may report; fixed for one run.
CapsChoices(alias) ==
    IF alias = "a"
    THEN [tools     : {<<"b_c">>, <<"x", "x">>},
          resources : {<<"r">>},
          prompts   : {<<"p">>}]
    ELSE [tools     : {<<>>, <<"c">>},
          resources : {<<>>, <<"r">>},
          prompts   : {<<>>}]

CapsAssignments ==
    {f \in [Children -> UNION {CapsChoices(c) : c \in Children}] :
        \A c \in Children : f[c] \in CapsChoices(c)}

\* Arguments a downstream caller passes, and results a child returns.
Args == {"q1", "q2"}
ChildResults ==
    { [content |-> <<"c1">>, _meta |-> "m"],
      [content |-> <<"c1", "c2">>, _meta |-> "m"],
      [content |-> <<"c1">>, _meta |-> None] }
FailureMessages == {"boom"}

ToolMeta(serverName, tool) ==
    [name |-> serverName \o "_" \o tool,
     serverName |-> serverName,
     originalToolName |-> tool]

ResourceMeta(serverName, resource) ==
    [uri |-> serverName \o "_" \o resource,
     serverName |-> serverName,
     originalResourceUri |-> resource]

PromptMeta(serverName, prompt) ==
    [name |-> serverName \o "_" \o prompt,
     serverName |-> serverName,
     originalPromptName |-> prompt]

MapTools(serverName, ts) == [i \in 1..Len(ts) |-> ToolMeta(serverName, ts[i])]
MapResources(serverName, rs) ==
    [i \in 1..Len(rs) |-> ResourceMeta(serverName, rs[i])]
MapPrompts(serverName, ps) ==
    [i \in 1..Len(ps) |-> PromptMeta(serverName, ps[i])]

\* Array.isArray(response.x) ? response.x : []
ArrayOrEmpty(reply) == IF reply.isArray THEN reply.items ELSE <<>>

\* client.name as read by rebuildUnifiedCollections.  The Client is built
\* from {name: serverName, version} and cast to Client & {name: string};
\* the class declares no name property, so the read yields the alias only
\* if the library happens to keep one, and undefined otherwise (which the
\* template strings render as "undefined").  Both outcomes are kept.
ClientName(alias) == IF clientHasName THEN alias ELSE "undefined"

\* No list call of the current child has ended yet.
NoOutcome == [k \in Kinds |-> None]

\* "ok" for an array, "notArray" for a response without one.
ReplyOutcome(reply) == IF reply.isArray THEN "ok" ELSE "notArray"

RouterInit ==
    /\ config = FALSE
    /\ spawnedServers = {}
    /\ connected = {}
    /\ closed = {}
    /\ killed = {}
    /\ unifiedTools = <<>>
    /\ unifiedResources = <<>>
    /\ unifiedPrompts = <<>>
    /\ pendingRebuild = [c \in Children, k \in Kinds |-> 0]
    /\ pc = "loadConfig"
    /\ idx = 1
    /\ tools = <<>>
    /\ resources = <<>>
    /\ prompts = <<>>
    /\ exitCode = Running
    /\ registeredTools = {}
    /\ registeredResources = {}
    /\ registeredPrompts = {}
    /\ exchange = <<>>
    /\ transports = {}
    /\ httpTransports = <<>>
    /\ lastHttp = <<>>
    /\ mcpServerTransport = 0
    /\ spawnFailed = {}
    /\ listOutcome = NoOutcome

(***************************************************************************)
(* main() and ServerManager.spawnServers.  main() runs to its next await   *)
(* without interruption: events (a child closing, a response arriving, a   *)
(* downstream request) are taken only while main() is suspended at an      *)
(* await or has returned with the router listening.                        *)
(***************************************************************************)
AwaitPcs == {"awaitConnect", "awaitListTools", "awaitListResources",
             "awaitListPrompts", "listening"}

\* A variant in which events are still taken after stopAllServers, the
\* process.exit that follows it left out.
EventLoopFreeAfterExit == pc \in AwaitPcs \cup {"exited"}

EventLoopFree == pc \in AwaitPcs

serverName == ConfigOrder[idx]

\* await serverManager.loadConfig()
LoadConfig ==
    /\ pc = "loadConfig"
    /\ config' = TRUE
    /\ pc' = "spawnLoop"
    /\ UNCHANGED <<transportVars, schemaVars, httpVars, discoveryVars,
                   childCaps, clientHasName, spawnedServers, connected,
                   closed, killed, unifiedTools, unifiedResources,
                   unifiedPrompts, pendingRebuild, idx, tools, resources,
                   prompts, exitCode, serverVars, handlerVars>>

\* The configuration file holds a JSON value that is falsy (null, false, 0
\* or ""): loadConfig resolves and this.config is as it was before the call.
LoadConfigFalsy ==
    /\ pc = "loadConfig"
    /\ config' = FALSE
    /\ pc' = "spawnServers"
    /\ UNCHANGED <<transportVars, schemaVars, httpVars, discoveryVars,
                   childCaps, clientHasName, spawnedServers, connected,
                   closed, killed, unifiedTools, unifiedResources,
                   unifiedPrompts, pendingRebuild, idx, tools, resources,
                   prompts, exitCode, serverVars, handlerVars>>

\* spawnServers: if (!this.config) throw new Error(...); main() rejects.
SpawnServersNotLoaded ==
    /\ pc = "spawnServers"
    /\ ~config
    /\ pc' = "mainCatch"
    /\ UNCHANGED <<transportVars, schemaVars, httpVars, discoveryVars,
                   managerVars, idx, tools, resources, prompts, exitCode,
                   serverVars, handlerVars>>

\* loadConfig rethrows a read or parse error; main() rejects.
LoadConfigFails ==
    /\ pc = "loadConfig"
    /\ pc' = "mainCatch"
    /\ UNCHANGED <<transportVars, schemaVars, httpVars, discoveryVars,
                   managerVars, idx, tools, resources, prompts, exitCode,
                   serverVars, handlerVars>>

\* if (serverConfig.disabled) continue;
SkipDisabled ==
    /\ pc = "spawnLoop"
    /\ idx <= Len(ConfigOrder)
    /\ serverName \in Disabled
    /\ idx' = idx + 1
    /\ UNCHANGED <<transportVars, schemaVars, httpVars, discoveryVars,
                   managerVars, pc, tools, resources, prompts, exitCode,
                   serverVars, handlerVars>>

\* A variant that spawns a server whether it is disabled or not.
SpawnChildIgnoresDisabled ==
    /\ pc = "spawnLoop"
    /\ idx <= Len(ConfigOrder)
    /\ spawnedServers' = spawnedServers \cup {serverName}
    /\ tools' = <<>>
    /\ resources' = <<>>
    /\ prompts' = <<>>
    /\ pc' = "awaitConnect"
    /\ listOutcome' = NoOutcome
    /\ UNCHANGED <<transportVars, schemaVars, httpVars, spawnFailed, config,
                   childCaps, clientHasName, connected, closed, killed,
                   unifiedTools, unifiedResources, unifiedPrompts,
                   pendingRebuild, idx, exitCode, serverVars, handlerVars>>

\* spawn(...), new Client(...), spawnedServers.set(...), client.connect(...)
SpawnChild ==
    /\ pc = "spawnLoop"
    /\ idx <= Len(ConfigOrder)
    /\ serverName \notin Disabled
    /\ spawnedServers' = spawnedServers \cup {serverName}
    /\ tools' = <<>>
    /\ resources' = <<>>
    /\ prompts' = <<>>
    /\ pc' = "awaitConnect"
    /\ listOutcome' = NoOutcome
    /\ UNCHANGED <<transportVars, schemaVars, httpVars, spawnFailed, config,
                   childCaps, clientHasName, connected, closed, killed,
                   unifiedTools, unifiedResources, unifiedPrompts,
                   pendingRebuild, idx, exitCode, serverVars, handlerVars>>

\* spawn(...) throws (an error the runtime raises at the call, such as an
\* invalid command): the outer catch logs, the loop goes on.  The map was
\* not written yet.
SpawnThrows ==
    /\ pc = "spawnLoop"
    /\ idx <= Len(ConfigOrder)
    /\ serverName \notin Disabled
    /\ spawnFailed' = spawnFailed \cup {serverName}
    /\ idx' = idx + 1
    /\ UNCHANGED <<transportVars, schemaVars, httpVars, listOutcome,
                   managerVars, pc, tools, resources, prompts, exitCode,
                   serverVars, handlerVars>>

\* spawn(...) returns a ChildProcess although the OS rejected the spawn
\* (ENOENT, EACCES, ...): the iteration goes on as for a started child, up
\* to its first await, and the ChildProcess will emit 'error'.
SpawnRejected ==
    /\ pc = "spawnLoop"
    /\ idx <= Len(ConfigOrder)
    /\ serverName \notin Disabled
    /\ spawnFailed' = spawnFailed \cup {serverName}
    /\ spawnedServers' = spawnedServers \cup {serverName}
    /\ tools' = <<>>
    /\ resources' = <<>>
    /\ prompts' = <<>>
    /\ listOutcome' = NoOutcome
    /\ pc' = "spawnError"
    /\ UNCHANGED <<transportVars, schemaVars, httpVars, config, childCaps,
                   clientHasName, connected, closed, killed, unifiedTools,
                   unifiedResources, unifiedPrompts, pendingRebuild, idx,
                   exitCode, serverVars, handlerVars>>

\* await client.connect(...) resolves; client.listTools() is issued.
ConnectResolved ==
    /\ pc = "awaitConnect"
    /\ serverName \notin closed
    /\ connected' = connected \cup {serverName}
    /\ pc' = "awaitListTools"
    /\ UNCHANGED <<transportVars, schemaVars, httpVars, discoveryVars,
                   config, childCaps, clientHasName, spawnedServers, closed,
                   killed, unifiedTools, unifiedResources, unifiedPrompts,
                   pendingRebuild, idx, tools, resources, prompts, exitCode,
                   serverVars, handlerVars>>

\* await client.connect(...) rejects: the outer catch logs, the loop goes on.
ConnectRejected ==
    /\ pc = "awaitConnect"
    /\ idx' = idx + 1
    /\ pc' = "spawnLoop"
    /\ UNCHANGED <<transportVars, schemaVars, httpVars, discoveryVars,
                   managerVars, tools, resources, prompts, exitCode,
                   serverVars, handlerVars>>

\* await client.listTools() resolves.
ListToolsResolved ==
    /\ pc = "awaitListTools"
    /\ serverName \notin closed
    /\ \E reply \in ListReplies(childCaps[serverName].tools) :
           /\ tools' = ArrayOrEmpty(reply)
           /\ listOutcome' =
                  [listOutcome EXCEPT !["tool"] = ReplyOutcome(reply)]
    /\ pc' = "awaitListResources"
    /\ UNCHANGED <<transportVars, schemaVars, httpVars, spawnFailed,
                   managerVars, idx, resources, prompts, exitCode,
                   serverVars, handlerVars>>

\* await client.listTools() rejects: logged, tools stays [].
ListToolsRejected ==
    /\ pc = "awaitListTools"
    /\ pc' = "awaitListResources"
    /\ listOutcome' = [listOutcome EXCEPT !["tool"] = "error"]
    /\ UNCHANGED <<transportVars, schemaVars, httpVars, spawnFailed,
                   managerVars, idx, tools, resources, prompts, exitCode,
                   serverVars, handlerVars>>

ListResourcesResolved ==
    /\ pc = "awaitListResources"
    /\ serverName \notin closed
    /\ \E reply \in ListReplies(childCaps[serverName].resources) :
           /\ resources' = ArrayOrEmpty(reply)
           /\ listOutcome' =
                  [listOutcome EXCEPT !["resource"] = ReplyOutcome(reply)]
    /\ pc' = "awaitListPrompts"
    /\ UNCHANGED <<transportVars, schemaVars, httpVars, spawnFailed,
                   managerVars, idx, tools, prompts, exitCode, serverVars,
                   handlerVars>>

\* A variant in which a failing listResources() ends the discovery of the
\* child (one try block around the three calls).
ListResourcesRejectedAborts ==
    /\ pc = "awaitListResources"
    /\ idx' = idx + 1
    /\ pc' = "spawnLoop"
    /\ listOutcome' = NoOutcome
    /\ UNCHANGED <<transportVars, schemaVars, httpVars, spawnFailed,
                   managerVars, tools, resources, prompts, exitCode,
                   serverVars, handlerVars>>

ListResourcesRejected ==
    /\ pc = "awaitListResources"
    /\ pc' = "awaitListPrompts"
    /\ listOutcome' = [listOutcome EXCEPT !["resource"] = "error"]
    /\ UNCHANGED <<transportVars, schemaVars, httpVars, spawnFailed,
                   managerVars, idx, tools, resources, prompts, exitCode,
                   serverVars, handlerVars>>

ListPromptsResolved ==
    /\ pc = "awaitListPrompts"
    /\ serverName \notin closed
    /\ \E reply \in ListReplies(childCaps[serverName].prompts) :
           /\ prompts' = ArrayOrEmpty(reply)
           /\ listOutcome' =
                  [listOutcome EXCEPT !["prompt"] = ReplyOutcome(reply)]
    /\ pc' = "push"
    /\ UNCHANGED <<transportVars, schemaVars, httpVars, spawnFailed,
                   managerVars, idx, tools, resources, exitCode, serverVars,
                   handlerVars>>

ListPromptsRejected ==
    /\ pc = "awaitListPrompts"
    /\ pc' = "push"
    /\ listOutcome' = [listOutcome EXCEPT !["prompt"] = "error"]
    /\ UNCHANGED <<transportVars, schemaVars, httpVars, spawnFailed,
                   managerVars, idx, tools, resources, prompts, exitCode,
                   serverVars, handlerVars>>

\* tools.forEach / resources.forEach / prompts.forEach: push the entries.
PushEntries ==
    /\ pc = "push"
    /\ unifiedTools' = unifiedTools \o MapTools(serverName, tools)
    /\ unifiedResources' =
           unifiedResources \o MapResources(serverName, resources)
    /\ unifiedPrompts' = unifiedPrompts \o MapPrompts(serverName, prompts)
    /\ idx' = idx + 1
    /\ pc' = "spawnLoop"
    /\ listOutcome' = NoOutcome
    /\ UNCHANGED <<transportVars, schemaVars, httpVars, spawnFailed, config,
                   childCaps, clientHasName, spawnedServers, connected,
                   closed, killed, pendingRebuild, tools, resources, prompts,
                   exitCode, serverVars, handlerVars>>

\* The for-in loop is over; spawnServers returns to main().
SpawnLoopDone ==
    /\ pc = "spawnLoop"
    /\ idx > Len(ConfigOrder)
    /\ pc' = "register"
    /\ UNCHANGED <<transportVars, schemaVars, httpVars, discoveryVars,
                   managerVars, idx, tools, resources, prompts, exitCode,
                   serverVars, handlerVars>>

(***************************************************************************)
(* childProcess.on('close'): spawnedServers.delete, then                   *)
(* rebuildUnifiedCollections: the three lists are emptied and every client *)
(* left in the map is sent three list calls, none of them awaited.         *)
(***************************************************************************)
ChildClose(a) ==
    /\ EventLoopFree
    /\ a \in spawnedServers
    /\ closed' = closed \cup {a}
    /\ spawnedServers' = spawnedServers \ {a}
    /\ unifiedTools' = <<>>
    /\ unifiedResources' = <<>>
    /\ unifiedPrompts' = <<>>
    /\ pendingRebuild' =
           [c \in Children, k \in Kinds |->
               IF c \in spawnedServers \ {a}
               THEN pendingRebuild[c, k] + 1
               ELSE pendingRebuild[c, k]]
    /\ UNCHANGED <<transportVars, schemaVars, httpVars, discoveryVars,
                   config, childCaps, clientHasName, connected, killed,
                   mainVars, serverVars, handlerVars>>

CapsOf(c, k) ==
    IF k = "tool" THEN childCaps[c].tools
    ELSE IF k = "resource" THEN childCaps[c].resources
    ELSE childCaps[c].prompts

\* client.listX().then(...) of a rebuild: the entries are pushed.
RebuildListResolved(c, k) ==
    /\ EventLoopFree
    /\ pendingRebuild[c, k] > 0
    /\ c \in connected
    /\ c \notin closed
    /\ pendingRebuild' = [pendingRebuild EXCEPT ![c, k] = @ - 1]
    /\ \E reply \in ListReplies(CapsOf(c, k)) :
        /\ unifiedTools' =
               IF k = "tool"
               THEN unifiedTools \o MapTools(ClientName(c), ArrayOrEmpty(reply))
               ELSE unifiedTools
        /\ unifiedResources' =
               IF k = "resource"
               THEN unifiedResources
                        \o MapResources(ClientName(c), ArrayOrEmpty(reply))
               ELSE unifiedResources
        /\ unifiedPrompts' =
               IF k = "prompt"
               THEN unifiedPrompts
                        \o MapPrompts(ClientName(c), ArrayOrEmpty(reply))
               ELSE unifiedPrompts
    /\ UNCHANGED <<transportVars, schemaVars, httpVars, discoveryVars,
                   config, childCaps, clientHasName, spawnedServers,
                   connected, closed, killed, mainVars, serverVars,
                   handlerVars>>

\* client.listX().catch(...) of a rebuild: logged only.
RebuildListRejected(c, k) ==
    /\ EventLoopFree
    /\ pendingRebuild[c, k] > 0
    /\ pendingRebuild' = [pendingRebuild EXCEPT ![c, k] = @ - 1]
    /\ UNCHANGED <<transportVars, schemaVars, httpVars, discoveryVars,
                   config, childCaps, clientHasName, spawnedServers,
                   connected, closed, killed, unifiedTools, unifiedResources,
                   unifiedPrompts, mainVars, serverVars, handlerVars>>

\* A variant of stopAllServers that clears the registry without signalling
\* the children.
StopAllServersClearsOnly ==
    /\ killed' = killed
    /\ spawnedServers' = {}
    /\ unifiedTools' = <<>>
    /\ unifiedResources' = <<>>
    /\ unifiedPrompts' = <<>>

\* ServerManager.stopAllServers
StopAllServers ==
    /\ killed' = killed \cup spawnedServers
    /\ spawnedServers' = {}
    /\ unifiedTools' = <<>>
    /\ unifiedResources' = <<>>
    /\ unifiedPrompts' = <<>>

\* The 'error' event of a ChildProcess whose spawn was rejected, emitted on
\* the next tick.  No listener is attached to it, so it is thrown and
\* reaches process.on('uncaughtException'): stopAllServers(), process.exit(1)
ChildSpawnError ==
    /\ pc = "spawnError"
    /\ StopAllServers
    /\ exitCode' = 1
    /\ pc' = "exited"
    /\ UNCHANGED <<transportVars, schemaVars, httpVars, discoveryVars,
                   config, childCaps, clientHasName, connected, closed,
                   pendingRebuild, idx, tools, resources, prompts,
                   serverVars, handlerVars>>

\* process.on('SIGINT' / 'SIGTERM'), installed once main() has resolved:
\* await stopAllServers(), process.exit(0)
SignalHandler ==
    /\ pc = "listening"
    /\ StopAllServers
    /\ exitCode' = 0
    /\ pc' = "exited"
    /\ UNCHANGED <<transportVars, schemaVars, httpVars, discoveryVars,
                   config, childCaps, clientHasName, connected, closed,
                   pendingRebuild, idx, tools, resources, prompts,
                   serverVars, handlerVars>>

\* Exit status of a process ended by a signal it does not handle.
KilledBySignal == 130

\* SIGINT or SIGTERM while main() has not resolved: no handler is installed
\* yet and the signal ends the process.
SignalDefault ==
    /\ pc \notin {"listening", "exited"}
    /\ exitCode' = KilledBySignal
    /\ pc' = "exited"
    /\ UNCHANGED <<transportVars, schemaVars, httpVars, discoveryVars,
                   managerVars, idx, tools, resources, prompts, serverVars,
                   handlerVars>>

\* A variant of main().catch that exits without stopping the children.
MainCatchExitsOnly ==
    /\ pc = "mainCatch"
    /\ exitCode' = 1
    /\ pc' = "exited"
    /\ UNCHANGED <<transportVars, schemaVars, httpVars, discoveryVars,
                   managerVars, idx, tools, resources, prompts, serverVars,
                   handlerVars>>

\* main().catch: stopAllServers(), process.exit(1)
MainCatch ==
    /\ pc = "mainCatch"
    /\ StopAllServers
    /\ exitCode' = 1
    /\ pc' = "exited"
    /\ UNCHANGED <<transportVars, schemaVars, httpVars, discoveryVars,
                   config, childCaps, clientHasName, connected, closed,
                   pendingRebuild, idx, tools, resources, prompts,
                   serverVars, handlerVars>>

(***************************************************************************)
(* Registration on the outward McpServer.  Each register call throws when  *)
(* its key is taken.  A tool or prompt is keyed by its first argument, a   *)
(* resource by its second (uri) argument, the first being its name.        *)
(***************************************************************************)
AddMeta == [name |-> "add", serverName |-> None, originalToolName |-> None]

Keys(reg) == {r.key : r \in reg}

\* getUnifiedTools().forEach: registerTool(toolMetadata.name, ...) and then
\* registerTool("add", ...), once per unified tool.
RECURSIVE RegisterTools(_, _, _)
RegisterTools(metas, i, reg) ==
    IF i > Len(metas) THEN [reg |-> reg, threw |-> FALSE]
    ELSE IF metas[i].name \in Keys(reg) THEN [reg |-> reg, threw |-> TRUE]
    ELSE LET withTool == reg \cup {[key |-> metas[i].name, meta |-> metas[i]]}
         IN  IF "add" \in Keys(withTool)
             THEN [reg |-> withTool, threw |-> TRUE]
             ELSE RegisterTools(metas, i + 1,
                      withTool \cup {[key |-> "add", meta |-> AddMeta]})

\* registerResource(resourceMetadata.uri, resourceMetadata.originalResourceUri, ...)
RECURSIVE RegisterResources(_, _, _)
RegisterResources(metas, i, reg) ==
    IF i > Len(metas) THEN [reg |-> reg, threw |-> FALSE]
    ELSE IF metas[i].originalResourceUri \in Keys(reg)
    THEN [reg |-> reg, threw |-> TRUE]
    ELSE RegisterResources(metas, i + 1,
             reg \cup {[key |-> metas[i].originalResourceUri,
                        meta |-> metas[i]]})

\* registerPrompt(promptMetadata.name, ...)
RECURSIVE RegisterPrompts(_, _, _)
RegisterPrompts(metas, i, reg) ==
    IF i > Len(metas) THEN [reg |-> reg, threw |-> FALSE]
    ELSE IF metas[i].name \in Keys(reg) THEN [reg |-> reg, threw |-> TRUE]
    ELSE RegisterPrompts(metas, i + 1,
             reg \cup {[key |-> metas[i].name, meta |-> metas[i]]})

\* main() after spawnServers: the three registration loops, then app.listen.
\* A throwing register call rejects main().
Register ==
    /\ pc = "register"
    /\ LET t == RegisterTools(unifiedTools, 1, {})
           r == IF t.threw THEN [reg |-> {}, threw |-> TRUE]
                ELSE RegisterResources(unifiedResources, 1, {})
           p == IF r.threw THEN [reg |-> {}, threw |-> TRUE]
                ELSE RegisterPrompts(unifiedPrompts, 1, {})
       IN  /\ registeredTools' = t.reg
           /\ registeredResources' = r.reg
           /\ registeredPrompts' = p.reg
           /\ pc' = IF p.threw THEN "mainCatch" ELSE "listening"
    /\ UNCHANGED <<transportVars, schemaVars, httpVars, discoveryVars,
                   managerVars, idx, tools, resources, prompts, exitCode,
                   handlerVars>>

(***************************************************************************)
(* Downstream requests on the outward server and the proxy handlers.       *)
(* One downstream exchange is followed at a time; exchange holds the one   *)
(* in progress or, once it is over, what became of it.                     *)
(***************************************************************************)
Registered(kind) ==
    IF kind = "tool" THEN registeredTools
    ELSE IF kind = "resource" THEN registeredResources
    ELSE registeredPrompts

UnifiedId(kind, meta) == IF kind = "resource" THEN meta.uri ELSE meta.name

OriginalId(kind, meta) ==
    IF kind = "tool" THEN meta.originalToolName
    ELSE IF kind = "resource" THEN meta.originalResourceUri
    ELSE meta.originalPromptName

\* Identifiers a downstream client may ask for.
RequestIds(kind) ==
    Keys(Registered(kind))
        \cup {UnifiedId(kind, r.meta) : r \in Registered(kind)}
        \cup {"zz_unknown"}

NoForward == [to |-> None, op |-> None, name |-> None, args |-> None]

CallRecord(kind, id, args, disposition, fwd, how, value) ==
    <<[req |-> "call", kind |-> kind, id |-> id, args |-> args,
       disposition |-> disposition, forwarded |-> fwd,
       how |-> how, value |-> value, raw |-> <<>>, waited |-> 0]>>

Pending ==
    /\ exchange # <<>>
    /\ exchange[1].req = "call"
    /\ exchange[1].disposition = "pending"

\* A variant in which the server listens from the start of main().
AcceptingFromStart == pc # "exited" /\ ~Pending

\* app.listen(3000) is the last statement of main(): requests reach the
\* outward server once main() got there.
Accepting == pc = "listening" /\ ~Pending

\* The outward server has nothing registered under the identifier.
CallUnknown(kind, id, args) ==
    /\ Accepting
    /\ id \in RequestIds(kind)
    /\ id \notin Keys(Registered(kind))
    /\ exchange' = CallRecord(kind, id, args, "notFound", NoForward, None, <<>>)
    /\ UNCHANGED <<transportVars, schemaVars, httpVars, discoveryVars,
                   managerVars, mainVars, serverVars>>

\* The built-in "add" tool.
CallAddTool(args) ==
    /\ Accepting
    /\ "add" \in Keys(registeredTools)
    /\ exchange' =
           CallRecord("tool", "add", args, "builtin", NoForward, None, <<>>)
    /\ UNCHANGED <<transportVars, schemaVars, httpVars, discoveryVars,
                   managerVars, mainVars, serverVars>>

\* The part common to the three handlers up to their await: the
\* getSpawnedServer check, then the call on the child's client.
InvokeHandler(kind, id, args, meta, op, fargs) ==
    /\ Accepting
    /\ exchange' =
           IF meta.serverName \notin spawnedServers
           THEN CallRecord(kind, id, args, "serverMissing", NoForward, "throw",
                    [message |-> "Server '" \o meta.serverName
                                     \o "' not found or not running."])
           ELSE CallRecord(kind, id, args, "pending",
                    [to |-> meta.serverName, op |-> op,
                     name |-> OriginalId(kind, meta), args |-> fargs],
                    None, <<>>)
    /\ UNCHANGED <<transportVars, schemaVars, httpVars, discoveryVars,
                   managerVars, mainVars, serverVars>>

\* proxyHandler: client.callTool({name: originalToolName, arguments: args})
InvokeProxyHandler(id, args) ==
    \E r \in registeredTools :
        /\ r.key = id
        /\ id # "add"
        /\ InvokeHandler("tool", id, args, r.meta, "callTool", args)

\* resourceHandler: client.readResource({uri: originalResourceUri})
InvokeResourceHandler(id) ==
    \E r \in registeredResources :
        /\ r.key = id
        /\ InvokeHandler("resource", id, None, r.meta, "readResource", None)

\* promptHandler: client.callTool({name: originalPromptName, arguments: args})
InvokePromptHandler(id, args) ==
    \E r \in registeredPrompts :
        /\ r.key = id
        /\ InvokeHandler("prompt", id, args, r.meta, "callTool", args)

\* What each handler returns for the child's rawResult.
HandlerReturn(kind, rawResult) ==
    IF kind = "prompt"
    THEN [messages |-> <<[content |-> rawResult.content[1],
                          role |-> "assistant"]>>,
          _meta |-> IF rawResult._meta = None THEN "{}" ELSE rawResult._meta]
    ELSE rawResult

\* What each handler does in its catch block: how it completes, with what.
HandlerCatch(kind, message) ==
    IF kind = "tool"
    THEN [how |-> "return", value |-> [string |-> "Error: " \o message]]
    ELSE IF kind = "resource"
    THEN [how |-> "throw",
          value |-> [message |-> "Failed to read resource: " \o message]]
    ELSE [how |-> "throw",
          value |-> [message |-> "Failed to execute prompt: " \o message]]

\* The awaited child call resolves.
ChildResult(rawResult) ==
    /\ pc = "listening"
    /\ Pending
    /\ exchange[1].forwarded.to \notin closed
    /\ exchange' =
           <<[exchange[1] EXCEPT
                 !.disposition = "success",
                 !.how = "return",
                 !.value = HandlerReturn(exchange[1].kind, rawResult),
                 !.raw = <<rawResult>>]>>
    /\ UNCHANGED <<transportVars, schemaVars, httpVars, discoveryVars,
                   managerVars, mainVars, serverVars>>

\* The awaited child call rejects: a JSON-RPC error from the child, or the
\* connection closed under the call.
ChildFailure(message) ==
    /\ pc = "listening"
    /\ Pending
    /\ exchange' =
           <<[exchange[1] EXCEPT
                 !.disposition = "childFailure",
                 !.how = HandlerCatch(exchange[1].kind, message).how,
                 !.value = HandlerCatch(exchange[1].kind, message).value]>>
    /\ UNCHANGED <<transportVars, schemaVars, httpVars, discoveryVars,
                   managerVars, mainVars, serverVars>>

\* The timeout member of each server's entry in mcp.json, in ticks; 0 when
\* the entry has none.  McpServerConfig declares it; no code reads it.
ConfigTimeout(alias) == IF alias = "a" THEN 1 ELSE 0

\* Time passes while a handler awaits the child's response.  Neither the
\* handlers nor spawnServers pass a timeout to the client or set a timer.
Tick ==
    /\ pc = "listening"
    /\ Pending
    /\ exchange[1].waited < MaxWait
    /\ exchange' = <<[exchange[1] EXCEPT !.waited = @ + 1]>>
    /\ UNCHANGED <<transportVars, schemaVars, httpVars, discoveryVars,
                   managerVars, mainVars, serverVars>>

\* tools/list, resources/list, prompts/list answered by the outward server
\* from what was registered on it.
DownstreamList(kind) ==
    /\ Accepting
    /\ exchange' = <<[req |-> "list", kind |-> kind,
                      entries |-> {[id |-> r.key,
                                    serverName |-> r.meta.serverName]
                                      : r \in Registered(kind)},
                      closedAt |-> closed]>>
    /\ UNCHANGED <<transportVars, schemaVars, httpVars, discoveryVars,
                   managerVars, mainVars, serverVars>>

(***************************************************************************)
(* The HTTP endpoint /mcp of main(): app.post, handleSessionRequest (GET   *)
(* and DELETE) and transport.onclose.  transports is a plain object: a     *)
(* lookup finds an own entry, else a member inherited from                 *)
(* Object.prototype ("constructor"), else undefined.                       *)
(***************************************************************************)
MaxSessions == 2

\* Values randomUUID() returns, in the order returned.
UuidPool == <<"u1", "u2", "u3", "u4">>

NoHeader == None
ObjectPrototypeKeys == {"constructor"}

\* Values of the mcp-session-id header: absent, empty, a key of
\* Object.prototype, an id no session ever had, or an id of the pool.
HeaderValues ==
    {NoHeader, "", "constructor", "u0"}
        \cup {UuidPool[i] : i \in 1..MaxSessions}

\* req.body.id as JSON text; NoId when the body has no id member.
NoId == None
BodyIds == {NoId, "0", "7", "str:", "str:a"}

\* JavaScript truthiness of a header value and of a body id.
TruthyHeader(h) == h \notin {NoHeader, ""}
TruthyId(id) == id \notin {NoId, "0", "str:"}

\* req.body.id || null
IdOrNull(id) == IF TruthyId(id) THEN id ELSE "null"

OwnKeys == {e.sessionId : e \in transports}

\* A variant that takes some stored transport for any id of the map.
TransportsGetAny(h) ==
    IF h \in OwnKeys
    THEN [found |-> "own",
          transport |-> (CHOOSE e \in transports : TRUE).transport]
    ELSE IF h \in ObjectPrototypeKeys
    THEN [found |-> "inherited", transport |-> 0]
    ELSE [found |-> "undefined", transport |-> 0]

\* transports[sessionId]
TransportsGet(h) ==
    IF h \in OwnKeys
    THEN [found |-> "own",
          transport |-> (CHOOSE e \in transports : e.sessionId = h).transport]
    ELSE IF h \in ObjectPrototypeKeys
    THEN [found |-> "inherited", transport |-> 0]
    ELSE [found |-> "undefined", transport |-> 0]

\* transports[newSessionId] = transport
TransportsSet(map, sid, t) ==
    {e \in map : e.sessionId # sid} \cup {[sessionId |-> sid, transport |-> t]}

\* delete transports[sid]
TransportsDelete(map, sid) == {e \in map : e.sessionId # sid}

\* The session ids minted so far, and sessionIdGenerator: () => randomUUID()
Minted ==
    {httpTransports[t].sessionId : t \in 1..Len(httpTransports)} \ {None}

SessionIdGenerator == UuidPool[Cardinality(Minted) + 1]

ClosedSessionIds ==
    {httpTransports[t].sessionId :
        t \in {u \in 1..Len(httpTransports) : httpTransports[u].closed}}
        \ {None}

\* A variant of onclose that leaves the entry in place.
OnCloseKeepsEntry(map, t) == map

\* transport.onclose, run when the transport closes.
OnClose(map, t) ==
    IF httpTransports[t].sessionId # None
    THEN TransportsDelete(map, httpTransports[t].sessionId)
    ELSE map

\* How transport.handleRequest ends, and what becomes of a rejection no
\* handler catches: Express answers 500, or the rejection reaches
\* process.on('unhandledRejection').
HandleOutcomes == {"ok", "throws"}
UncaughtOutcomes == {"status500", "unhandledRejection"}

HttpRecord(verb, h, init, id, status, code, respId, by, created, after) ==
    <<[verb |-> verb, header |-> h, init |-> init, id |-> id,
       status |-> status, errorCode |-> code, respId |-> respId,
       handledBy |-> by, created |-> created,
       before |-> transports, after |-> after,
       closedBefore |-> ClosedSessionIds, sentOn |-> 0]>>

\* The record of a request whose JSON-RPC reply the outward server hands to
\* the send of transport t (0: to none); a message without id has no reply.
WithReply(rec, id, t) ==
    <<[rec[1] EXCEPT !.sentOn = IF id = NoId THEN 0 ELSE t]>>

\* What McpServer.connect does when the server is bound to a transport
\* already: it binds the new one instead, or it throws.
ConnectOutcomes == {"rebinds", "throws"}

\* res.status(500).json({... code: -32003 ..., id: req.body.id || null})
InternalError(verb, h, init, id, by, created) ==
    HttpRecord(verb, h, init, id, 500, -32003, IdOrNull(id), by, created,
               transports)

\* app.post('/mcp', ...).  await mcpServer.connect(transport) stands before
\* the try block: when it throws, the handler's promise rejects.
Post(h, init, id, outcome, connect, uncaught) ==
    /\ pc = "listening"
    /\ LET got == TransportsGet(h)
           t   == Len(httpTransports) + 1
       IN  IF TruthyHeader(h) /\ got.found = "own"
           THEN /\ httpTransports' = httpTransports
                /\ transports' = transports
                /\ mcpServerTransport' = mcpServerTransport
                /\ lastHttp' =
                       IF outcome = "ok"
                       THEN WithReply(
                                HttpRecord("POST", h, init, id, 200, 0, None,
                                           got.transport, 0, transports),
                                id, mcpServerTransport)
                       ELSE InternalError("POST", h, init, id,
                                          got.transport, 0)
                /\ UNCHANGED <<managerVars, mainVars>>
           ELSE IF TruthyHeader(h) /\ got.found = "inherited"
           THEN \* transport.handleRequest is not a function: a TypeError
                \* inside the try block
                /\ httpTransports' = httpTransports
                /\ transports' = transports
                /\ mcpServerTransport' = mcpServerTransport
                /\ lastHttp' = InternalError("POST", h, init, id, 0, 0)
                /\ UNCHANGED <<managerVars, mainVars>>
           ELSE IF ~TruthyHeader(h) /\ init
           THEN /\ Len(httpTransports) < MaxSessions
                /\ IF mcpServerTransport # 0 /\ connect = "throws"
                   THEN /\ UNCHANGED <<transports, httpTransports,
                                       mcpServerTransport>>
                        /\ IF uncaught = "status500"
                           THEN /\ lastHttp' =
                                       HttpRecord("POST", h, init, id, 500, 0,
                                                  None, 0, 0, transports)
                                /\ UNCHANGED <<managerVars, mainVars>>
                           ELSE \* process.on('unhandledRejection')
                                /\ lastHttp' =
                                       HttpRecord("POST", h, init, id, 0, 0,
                                                  None, 0, 0, transports)
                                /\ StopAllServers
                                /\ exitCode' = 1
                                /\ pc' = "exited"
                                /\ UNCHANGED <<config, childCaps,
                                               clientHasName, connected,
                                               closed, pendingRebuild, idx,
                                               tools, resources, prompts>>
                   ELSE /\ mcpServerTransport' = t
                        /\ UNCHANGED <<managerVars, mainVars>>
                        /\ IF outcome = "ok"
                           THEN LET sid == SessionIdGenerator IN
                                /\ httpTransports' =
                                       Append(httpTransports,
                                              [sessionId |-> sid,
                                               connected |-> TRUE,
                                               closed |-> FALSE])
                                /\ transports' =
                                       TransportsSet(transports, sid, t)
                                /\ lastHttp' =
                                       WithReply(
                                           HttpRecord("POST", h, init, id,
                                               200, 0, None, t, t,
                                               TransportsSet(transports,
                                                             sid, t)),
                                           id, t)
                           ELSE /\ httpTransports' =
                                       Append(httpTransports,
                                              [sessionId |-> None,
                                               connected |-> TRUE,
                                               closed |-> FALSE])
                                /\ transports' = transports
                                /\ lastHttp' =
                                       InternalError("POST", h, init, id, t, t)
           ELSE /\ httpTransports' = httpTransports
                /\ transports' = transports
                /\ mcpServerTransport' = mcpServerTransport
                /\ lastHttp' = HttpRecord("POST", h, init, id, 400, -32000,
                                          "null", 0, 0, transports)
                /\ UNCHANGED <<managerVars, mainVars>>
    /\ UNCHANGED <<transportVars, schemaVars, serverVars, handlerVars,
                   discoveryVars>>

\* The close of a transport that was connected to the outward server runs
\* the server's own close handler too, which forgets the transport the
\* server is bound to.
ProtocolOnClose == 0

\* handleSessionRequest, for GET and DELETE.  A DELETE the transport accepts
\* closes the transport.  An exception of handleRequest is not caught here.
HandleSessionRequest(verb, h, outcome, uncaught) ==
    /\ pc = "listening"
    /\ LET got == TransportsGet(h) IN
       IF ~TruthyHeader(h) \/ got.found = "undefined"
       THEN /\ lastHttp' = HttpRecord(verb, h, FALSE, NoId, 400, 0, None,
                                      0, 0, transports)
            /\ UNCHANGED <<transports, httpTransports, mcpServerTransport,
                           managerVars, mainVars>>
       ELSE IF got.found = "own" /\ outcome = "ok"
       THEN LET t     == got.transport
                after == IF verb = "DELETE"
                         THEN OnClose(transports, t) ELSE transports
            IN  /\ lastHttp' = HttpRecord(verb, h, FALSE, NoId, 200, 0, None,
                                          t, 0, after)
                /\ transports' = after
                /\ httpTransports' =
                       IF verb = "DELETE"
                       THEN [httpTransports EXCEPT ![t].closed = TRUE]
                       ELSE httpTransports
                /\ mcpServerTransport' =
                       IF verb = "DELETE"
                       THEN ProtocolOnClose ELSE mcpServerTransport
                /\ UNCHANGED <<managerVars, mainVars>>
       ELSE IF uncaught = "status500"
       THEN /\ lastHttp' = HttpRecord(verb, h, FALSE, NoId, 500, 0, None,
                                      got.transport, 0, transports)
            /\ UNCHANGED <<transports, httpTransports, mcpServerTransport,
                           managerVars, mainVars>>
       ELSE \* process.on('unhandledRejection'): stopAllServers(), exit(1)
            /\ lastHttp' = HttpRecord(verb, h, FALSE, NoId, 0, 0, None,
                                      got.transport, 0, transports)
            /\ StopAllServers
            /\ exitCode' = 1
            /\ pc' = "exited"
            /\ UNCHANGED <<transports, httpTransports, mcpServerTransport,
                           config, childCaps, clientHasName, connected,
                           closed, pendingRebuild, idx, tools, resources,
                           prompts>>
    /\ UNCHANGED <<transportVars, schemaVars, serverVars, handlerVars,
                   discoveryVars>>

\* A transport closes for a reason other than a DELETE request.
TransportClose(t) ==
    /\ pc = "listening"
    /\ t \in 1..Len(httpTransports)
    /\ ~httpTransports[t].closed
    /\ httpTransports' = [httpTransports EXCEPT ![t].closed = TRUE]
    /\ transports' = OnClose(transports, t)
    /\ mcpServerTransport' = ProtocolOnClose
    /\ UNCHANGED <<transportVars, schemaVars, managerVars, mainVars, serverVars,
                   handlerVars, lastHttp, discoveryVars>>

(***************************************************************************)
(* Schemas.  A schema is an object with a scalar member (tag) and at most  *)
(* one member that is an object itself (child); objects live in the heap   *)
(* and are held by reference, 0 standing for undefined.  An entry's        *)
(* inputSchema is JSON.parse(JSON.stringify(tool.inputSchema)).            *)
(***************************************************************************)
SchemaTags == {"object", "string"}

\* JSON.stringify of the object at reference r, as a sequence of tokens.
RECURSIVE SchemaStringify(_, _)
SchemaStringify(h, r) ==
    <<"{", h[r].tag>>
        \o (IF h[r].child = 0 THEN <<>> ELSE SchemaStringify(h, h[r].child))
        \o <<"}">>

\* JSON.parse of a text that starts with an object: the objects are newly
\* allocated; rest is the text after the object.
RECURSIVE SchemaParse(_, _)
SchemaParse(tokens, h) ==
    LET after == SubSeq(tokens, 3, Len(tokens))
        sub   == IF after[1] = "{"
                 THEN SchemaParse(after, h)
                 ELSE [heap |-> h, ref |-> 0, rest |-> after]
        h2    == Append(sub.heap, [tag |-> tokens[2], child |-> sub.ref])
    IN  [heap |-> h2, ref |-> Len(h2), rest |-> Tail(sub.rest)]

\* A variant that copies the members of the top object only ({...schema}).
ShallowClone(h, r) ==
    [heap |-> Append(h, h[r]), ref |-> Len(h) + 1, rest |-> <<>>]

\* JSON.parse(JSON.stringify(schema))
DeepClone(h, r) == SchemaParse(SchemaStringify(h, r), h)

\* tool.inputSchema ? JSON.parse(JSON.stringify(tool.inputSchema)) : undefined
\* for the tools from position i on.
RECURSIVE PushSchemasFrom(_, _, _)
PushSchemasFrom(i, h, stored) ==
    IF i > Len(responseSchemas) THEN [heap |-> h, stored |-> stored]
    ELSE IF responseSchemas[i] = 0
    THEN PushSchemasFrom(i + 1, h, Append(stored, 0))
    ELSE LET c == DeepClone(h, responseSchemas[i])
         IN  PushSchemasFrom(i + 1, c.heap, Append(stored, c.ref))

\* The value of the object at reference r; <<>> for undefined.
RECURSIVE Deref(_, _)
Deref(h, r) ==
    IF r = 0 THEN <<>>
    ELSE <<[tag |-> h[r].tag, child |-> Deref(h, h[r].child)]>>

\* Texts of the schemas a child may report for a tool.
SchemaTexts ==
    { <<"{", "object", "}">>,
      <<"{", "object", "{", "string", "}", "}">> }

\* The inputSchema of each tool of a response: a text, or none.
ResponseShapes ==
    UNION {[1..n -> SchemaTexts \cup {<<>>}] : n \in 1..MaxTools}

\* The response as the client hands it over: parsed from the wire.
RECURSIVE ParseResponse(_, _, _)
ParseResponse(shapes, h, refs) ==
    IF shapes = <<>> THEN [heap |-> h, refs |-> refs]
    ELSE IF Head(shapes) = <<>>
    THEN ParseResponse(Tail(shapes), h, Append(refs, 0))
    ELSE LET o == SchemaParse(Head(shapes), h)
         IN  ParseResponse(Tail(shapes), o.heap, Append(refs, o.ref))

NoConversion ==
    /\ toolInputSchema = <<>>
    /\ inputShape = <<>>
    /\ validated = <<>>

NoSchemas ==
    /\ heap = <<>>
    /\ responseSchemas = <<>>
    /\ storedSchemas = <<>>
    /\ insertedValues = <<>>
    /\ NoConversion

\* tools.forEach(... this.unifiedTools.push({... inputSchema ...}))
PushSchemas ==
    /\ storedSchemas = <<>>
    /\ LET out == PushSchemasFrom(1, heap, <<>>) IN
       /\ heap' = out.heap
       /\ storedSchemas' = out.stored
    /\ insertedValues' =
           [i \in 1..Len(responseSchemas) |-> Deref(heap, responseSchemas[i])]
    /\ UNCHANGED <<transportVars, managerVars, mainVars, serverVars,
                   handlerVars, httpVars, discoveryVars, responseSchemas,
                   convertVars>>

\* References of the objects of the discovery response.
RECURSIVE Reachable(_, _)
Reachable(h, r) ==
    IF r = 0 THEN {} ELSE {r} \cup Reachable(h, h[r].child)

ResponseObjects ==
    UNION {Reachable(heap, responseSchemas[i]) : i \in 1..Len(responseSchemas)}

\* Some holder of the discovery response assigns to a member of one of its
\* objects.
MutateResponse(r, tag) ==
    /\ r \in ResponseObjects
    /\ heap[r].tag # tag
    /\ heap' = [heap EXCEPT ![r].tag = tag]
    /\ UNCHANGED <<transportVars, managerVars, mainVars, serverVars,
                   handlerVars, httpVars, discoveryVars, responseSchemas,
                   storedSchemas, insertedValues, convertVars>>

(***************************************************************************)
(* convertJsonSchemaToZod and the validation the outward server makes of   *)
(* the arguments of a call against the shape a tool was registered with.   *)
(* properties is a set of [key, type] pairs, a shape a set of [key, zod]   *)
(* pairs, an argument object a set of [key, value] pairs, value being the  *)
(* kind of JSON value supplied.                                            *)
(***************************************************************************)
PropertyKeys == {"p", "q"}
JsonTypes == {"string", "number", "integer", "boolean", "array", "object"}
ValueKinds == {"string", "number", "boolean", "array", "object"}

\* Objects with at most one member per key.
ObjectsOver(members) ==
    {o \in SUBSET members :
        \A m1, m2 \in o : m1.key = m2.key => m1 = m2}

MemberKeys(o) == {m.key : m \in o}

UndefinedSchema ==
    [defined |-> FALSE, type |-> None, hasProperties |-> FALSE,
     properties |-> {}, required |-> {}]

\* The inputSchema a child may report for a tool: none, a schema that is
\* not of type object, an object schema without properties, and object
\* schemas with properties of which some are required.
InputSchemas ==
    {UndefinedSchema,
     [defined |-> TRUE, type |-> "string", hasProperties |-> FALSE,
      properties |-> {}, required |-> {}],
     [defined |-> TRUE, type |-> "object", hasProperties |-> FALSE,
      properties |-> {}, required |-> {}]}
    \cup UNION {
        {[defined |-> TRUE, type |-> "object", hasProperties |-> TRUE,
          properties |-> ps, required |-> req] :
            req \in SUBSET MemberKeys(ps)} :
        ps \in ObjectsOver([key : PropertyKeys, type : JsonTypes])}

\* Argument objects a downstream caller may pass.
ArgumentObjects == ObjectsOver([key : PropertyKeys, value : ValueKinds])

NoShape == [defined |-> FALSE, shape |-> {}]

\* The chain of tests on prop.type.
ZodOf(type) ==
    IF type = "string" THEN "ZodString"
    ELSE IF type = "number" \/ type = "integer" THEN "ZodNumber"
    ELSE IF type = "boolean" THEN "ZodBoolean"
    ELSE IF type = "array" THEN "ZodArray"
    ELSE "ZodAny"

convertJsonSchemaToZod(jsonSchema) ==
    IF \/ ~jsonSchema.defined
       \/ jsonSchema.type # "object"
       \/ ~jsonSchema.hasProperties
    THEN NoShape
    ELSE [defined |-> TRUE,
          shape |-> {[key |-> prop.key, zod |-> ZodOf(prop.type)] :
                        prop \in jsonSchema.properties}]

\* inputSchema: toolMetadata.inputSchema
\*                  ? convertJsonSchemaToZod(toolMetadata.inputSchema)
\*                  : undefined
RegisterToolWithSchema ==
    /\ toolInputSchema # <<>>
    /\ inputShape = <<>>
    /\ inputShape' = <<convertJsonSchemaToZod(toolInputSchema[1])>>
    /\ UNCHANGED <<transportVars, managerVars, mainVars, serverVars,
                   handlerVars, httpVars, discoveryVars, heap,
                   responseSchemas, storedSchemas, insertedValues,
                   toolInputSchema, validated>>

\* Whether a zod type accepts a value of the kind.
ZodMatches(zod, value) ==
    \/ zod = "ZodAny"
    \/ zod = "ZodString" /\ value = "string"
    \/ zod = "ZodNumber" /\ value = "number"
    \/ zod = "ZodBoolean" /\ value = "boolean"
    \/ zod = "ZodArray" /\ value = "array"

\* z.object(shape) parsing the arguments: a member that is absent is
\* undefined, which among the types of a shape only z.any() accepts.
ShapeAccepts(shape, args) ==
    \A e \in shape :
        IF e.key \in MemberKeys(args)
        THEN \A a \in args : a.key = e.key => ZodMatches(e.zod, a.value)
        ELSE e.zod = "ZodAny"

\* A tools/call on the registered tool: the outward server validates the
\* arguments against the registered shape, if there is one, and calls the
\* proxy handler only when they pass.
CallToolWithArguments(args) ==
    /\ inputShape # <<>>
    /\ validated' =
           <<[args |-> args,
              accepted |-> (inputShape[1].defined
                               => ShapeAccepts(inputShape[1].shape, args))]>>
    /\ UNCHANGED <<transportVars, managerVars, mainVars, serverVars,
                   handlerVars, httpVars, discoveryVars, heap,
                   responseSchemas, storedSchemas, insertedValues,
                   toolInputSchema, inputShape>>

(***************************************************************************)
(* Specifications.                                                         *)
(***************************************************************************)
Init ==
    /\ TransportInit(<<>>)
    /\ childCaps \in CapsAssignments
    /\ clientHasName \in BOOLEAN
    /\ RouterInit
    /\ NoSchemas

Next ==
    \/ LoadConfig
    \/ LoadConfigFalsy
    \/ SpawnServersNotLoaded
    \/ LoadConfigFails
    \/ SkipDisabled
    \/ SpawnChild
    \/ SpawnThrows
    \/ SpawnRejected
    \/ ChildSpawnError
    \/ ConnectResolved
    \/ ConnectRejected
    \/ ListToolsResolved
    \/ ListToolsRejected
    \/ ListResourcesResolved
    \/ ListResourcesRejected
    \/ ListPromptsResolved
    \/ ListPromptsRejected
    \/ PushEntries
    \/ SpawnLoopDone
    \/ Register
    \/ MainCatch
    \/ SignalHandler
    \/ SignalDefault
    \/ \E a \in Children : ChildClose(a)
    \/ \E c \in Children, k \in Kinds : RebuildListResolved(c, k)
    \/ \E c \in Children, k \in Kinds : RebuildListRejected(c, k)
    \/ \E kind \in Kinds : \E id \in RequestIds(kind), args \in Args :
           CallUnknown(kind, id, args)
    \/ \E args \in Args : CallAddTool(args)
    \/ \E id \in RequestIds("tool"), args \in Args :
           InvokeProxyHandler(id, args)
    \/ \E id \in RequestIds("resource") : InvokeResourceHandler(id)
    \/ \E id \in RequestIds("prompt"), args \in Args :
           InvokePromptHandler(id, args)
    \/ \E rawResult \in ChildResults : ChildResult(rawResult)
    \/ \E message \in FailureMessages : ChildFailure(message)
    \/ \E kind \in Kinds : DownstreamList(kind)

Spec == Init /\ [][Next]_vars

InitFraming ==
    /\ \E ls \in LineSeqs : TransportInit(ls)
    /\ childCaps = [c \in Children |->
                       [tools |-> <<>>, resources |-> <<>>, prompts |-> <<>>]]
    /\ clientHasName = TRUE
    /\ RouterInit
    /\ NoSchemas

NextFraming == \E k \in 1..MaxChunk : OnData(k)

SpecFraming == InitFraming /\ [][NextFraming]_vars

\* The transport of one child, used for sending only.
InitSend ==
    /\ TransportInit(<<>>)
    /\ childCaps = [c \in Children |->
                       [tools |-> <<>>, resources |-> <<>>, prompts |-> <<>>]]
    /\ clientHasName = TRUE
    /\ RouterInit
    /\ NoSchemas

NextSend ==
    \/ \E message \in SendMessages : Send(message)
    \/ OutputFlush
    \/ Close

SpecSend == InitSend /\ [][NextSend]_vars

\* The stream goes on handing what it buffered to the pipe.
SpecSendLive == SpecSend /\ WF_vars(OutputFlush)

\* The router listening after a startup in which both children came up:
\* child a with one tool, one resource and one prompt, child a_b with none.
ListeningCaps ==
    [c \in Children |->
        IF c = "a"
        THEN [tools |-> <<"b_c">>, resources |-> <<"r">>, prompts |-> <<"p">>]
        ELSE [tools |-> <<>>, resources |-> <<>>, prompts |-> <<>>]]

Listening ==
    /\ config = TRUE
    /\ childCaps = ListeningCaps
    /\ spawnedServers = Children
    /\ connected = Children
    /\ closed = {}
    /\ killed = {}
    /\ unifiedTools = MapTools("a", ListeningCaps["a"].tools)
    /\ unifiedResources = MapResources("a", ListeningCaps["a"].resources)
    /\ unifiedPrompts = MapPrompts("a", ListeningCaps["a"].prompts)
    /\ pendingRebuild = [c \in Children, k \in Kinds |-> 0]
    /\ pc = "listening"
    /\ idx = Len(ConfigOrder) + 1
    /\ tools = <<>>
    /\ resources = <<>>
    /\ prompts = <<>>
    /\ exitCode = Running
    /\ registeredTools = RegisterTools(unifiedTools, 1, {}).reg
    /\ registeredResources = RegisterResources(unifiedResources, 1, {}).reg
    /\ registeredPrompts = RegisterPrompts(unifiedPrompts, 1, {}).reg
    /\ exchange = <<>>
    /\ transports = {}
    /\ httpTransports = <<>>
    /\ lastHttp = <<>>
    /\ mcpServerTransport = 0
    /\ spawnFailed = {}
    /\ listOutcome = NoOutcome

InitHttp ==
    /\ TransportInit(<<>>)
    /\ clientHasName \in BOOLEAN
    /\ Listening
    /\ NoSchemas

NextHttp ==
    \/ \E h \in HeaderValues, init \in BOOLEAN, id \in BodyIds,
          outcome \in HandleOutcomes, connect \in ConnectOutcomes,
          uncaught \in UncaughtOutcomes :
           Post(h, init, id, outcome, connect, uncaught)
    \/ \E verb \in {"GET", "DELETE"}, h \in HeaderValues,
          outcome \in HandleOutcomes, uncaught \in UncaughtOutcomes :
           HandleSessionRequest(verb, h, outcome, uncaught)
    \/ \E t \in 1..MaxSessions : TransportClose(t)

SpecHttp == InitHttp /\ [][NextHttp]_vars

\* One discovery response with its schemas, before its entries are pushed.
InitSchemas ==
    /\ TransportInit(<<>>)
    /\ childCaps = [c \in Children |->
                       [tools |-> <<>>, resources |-> <<>>, prompts |-> <<>>]]
    /\ clientHasName = TRUE
    /\ RouterInit
    /\ \E shapes \in ResponseShapes :
           LET out == ParseResponse(shapes, <<>>, <<>>) IN
           /\ heap = out.heap
           /\ responseSchemas = out.refs
    /\ storedSchemas = <<>>
    /\ insertedValues = <<>>
    /\ NoConversion

NextSchemas ==
    \/ PushSchemas
    \/ \E r \in 1..(4 * MaxTools), tag \in SchemaTags : MutateResponse(r, tag)

SpecSchemas == InitSchemas /\ [][NextSchemas]_vars

\* One unified tool with its inputSchema, before it is registered.
InitConvert ==
    /\ TransportInit(<<>>)
    /\ childCaps = [c \in Children |->
                       [tools |-> <<>>, resources |-> <<>>, prompts |-> <<>>]]
    /\ clientHasName = TRUE
    /\ RouterInit
    /\ heap = <<>>
    /\ responseSchemas = <<>>
    /\ storedSchemas = <<>>
    /\ insertedValues = <<>>
    /\ \E schema \in InputSchemas : toolInputSchema = <<schema>>
    /\ inputShape = <<>>
    /\ validated = <<>>

NextConvert ==
    \/ RegisterToolWithSchema
    \/ \E args \in ArgumentObjects : CallToolWithArguments(args)

SpecConvert == InitConvert /\ [][NextConvert]_vars

\* Forwarded calls on the listening router, with the passing of time.
NextCalls ==
    \/ \E id \in RequestIds("tool"), args \in Args :
           InvokeProxyHandler(id, args)
    \/ \E id \in RequestIds("resource") : InvokeResourceHandler(id)
    \/ \E id \in RequestIds("prompt"), args \in Args :
           InvokePromptHandler(id, args)
    \/ \E rawResult \in ChildResults : ChildResult(rawResult)
    \/ \E message \in FailureMessages : ChildFailure(message)
    \/ Tick

SpecCalls == InitHttp /\ [][NextCalls]_vars

\* What the children report in the runs that begin at registration: child a
\* zero, one or two tools of different names, child a_b zero or one.
RegisterCaps ==
    {[c \in Children |->
         IF c = "a"
         THEN [tools |-> ta, resources |-> <<"r">>, prompts |-> <<"p">>]
         ELSE [tools |-> tb, resources |-> <<>>, prompts |-> <<>>]] :
       ta \in {<<>>, <<"x">>, <<"x", "y">>}, tb \in {<<>>, <<"c">>}}

\* main() after spawnServers has returned, both children discovered and
\* running, before the first register call.
InitRegister ==
    /\ TransportInit(<<>>)
    /\ NoSchemas
    /\ clientHasName = TRUE
    /\ config = TRUE
    /\ childCaps \in RegisterCaps
    /\ spawnedServers = Children
    /\ connected = Children
    /\ closed = {}
    /\ killed = {}
    /\ unifiedTools =
           MapTools("a", childCaps["a"].tools)
               \o MapTools("a_b", childCaps["a_b"].tools)
    /\ unifiedResources = MapResources("a", childCaps["a"].resources)
    /\ unifiedPrompts = MapPrompts("a", childCaps["a"].prompts)
    /\ pendingRebuild = [c \in Children, k \in Kinds |-> 0]
    /\ pc = "register"
    /\ idx = Len(ConfigOrder) + 1
    /\ tools = <<>>
    /\ resources = <<>>
    /\ prompts = <<>>
    /\ exitCode = Running
    /\ registeredTools = {}
    /\ registeredResources = {}
    /\ registeredPrompts = {}
    /\ exchange = <<>>
    /\ transports = {}
    /\ httpTransports = <<>>
    /\ lastHttp = <<>>
    /\ mcpServerTransport = 0
    /\ spawnFailed = {}
    /\ listOutcome = NoOutcome

NextRegister ==
    \/ Register
    \/ MainCatch
    \/ SignalHandler
    \/ \E args \in Args : CallAddTool(args)
    \/ \E id \in RequestIds("tool"), args \in Args :
           InvokeProxyHandler(id, args)
    \/ \E id \in RequestIds("resource") : InvokeResourceHandler(id)
    \/ \E id \in RequestIds("prompt"), args \in Args :
           InvokePromptHandler(id, args)
    \/ \E rawResult \in ChildResults : ChildResult(rawResult)
    \/ \E message \in FailureMessages : ChildFailure(message)
    \/ \E kind \in Kinds : DownstreamList(kind)

SpecRegister == InitRegister /\ [][NextRegister]_vars


(***************************************************************************)
(* Claims.                                                                 *)
(***************************************************************************)
IsCall == exchange # <<>> /\ exchange[1].req = "call"
IsList == exchange # <<>> /\ exchange[1].req = "list"

\* The call reached the child-side client of some child.
WasForwarded ==
    /\ IsCall
    /\ exchange[1].disposition \in {"pending", "success", "childFailure"}

\* isError: true with exactly one content element carrying a text.
IsMcpError(value) ==
    /\ DOMAIN value = {"content", "isError", "_meta"}
    /\ value.isError = TRUE
    /\ Len(value.content) = 1

AllEntries ==
    {unifiedTools[i] : i \in 1..Len(unifiedTools)}
        \cup {[name |-> unifiedResources[i].uri,
               serverName |-> unifiedResources[i].serverName,
               originalToolName |-> unifiedResources[i].originalResourceUri]
                 : i \in 1..Len(unifiedResources)}
        \cup {[name |-> unifiedPrompts[i].name,
               serverName |-> unifiedPrompts[i].serverName,
               originalToolName |-> unifiedPrompts[i].originalPromptName]
                 : i \in 1..Len(unifiedPrompts)}

\* C1: every capability that startup discovery obtained from child a under
\* the original name x is registered with unified identifier a_x, and a
\* downstream call to a_x, while a is in the active map, is forwarded to
\* child a with the original name x and the caller's arguments unchanged.
C1_NamespacingDispatch ==
    \A kind \in Kinds : \A r \in Registered(kind) :
        (r.key # "add" /\ r.meta.serverName \in spawnedServers) =>
            /\ UnifiedId(kind, r.meta)
                   = r.meta.serverName \o "_" \o OriginalId(kind, r.meta)
            /\ (/\ IsCall
                /\ exchange[1].kind = kind
                /\ exchange[1].id = UnifiedId(kind, r.meta))
               => /\ WasForwarded
                  /\ exchange[1].forwarded.to = r.meta.serverName
                  /\ exchange[1].forwarded.name = OriginalId(kind, r.meta)
                  /\ exchange[1].forwarded.args = exchange[1].args

\* C2: when every line written is a JSON object followed by "\n", the
\* messages delivered so far are a prefix of the objects written, in order
\* (the documented rewrite of result.structuredContent: null apart), and
\* once every byte has been delivered, however the bytes were cut into
\* chunks, the delivered sequence is the whole sequence written.
C2_FramingRoundTrip ==
    (\A i \in 1..Len(lines) : IsJsonText(lines[i])) =>
        /\ Len(received) <= Len(lines)
        /\ \A i \in 1..Len(received) :
               received[i] = CorrectStructuredContent(JsonParse(lines[i]))
        /\ wire = <<>> => Len(received) = Len(lines)

\* C3: every entry of the three unified lists names a serverAlias that is
\* in the active child map and whose process has not closed.
C3_NoOrphanEntries ==
    \A e \in AllEntries :
        e.serverName \in spawnedServers /\ e.serverName \notin closed

NoDuplicates(ids) == \A i, j \in 1..Len(ids) : ids[i] = ids[j] => i = j

\* C4: no two tool entries share a unified name, no two prompt entries
\* share a unified name and no two resource entries share a unified URI.
C4_UniqueUnifiedIds ==
    /\ NoDuplicates([i \in 1..Len(unifiedTools) |-> unifiedTools[i].name])
    /\ NoDuplicates([i \in 1..Len(unifiedPrompts) |-> unifiedPrompts[i].name])
    /\ NoDuplicates([i \in 1..Len(unifiedResources) |->
                        unifiedResources[i].uri])

\* C5: once the process of child a has closed, a is not in the active child
\* map and no unified list holds an entry whose serverAlias is a, in the
\* state the close handler leaves and in every later state.
C5_ClosedChildStaysRemoved ==
    \A a \in closed :
        /\ a \notin spawnedServers
        /\ \A e \in AllEntries : e.serverName # a

\* C6: a tools/list, resources/list or prompts/list answered downstream
\* contains no capability of a child that had exited when it was answered.
C6_ListWithdrawsExitedChild ==
    IsList => \A e \in exchange[1].entries :
                  e.serverName \notin exchange[1].closedAt

\* C7: when the call on the child client fails, the handler completes
\* normally, returning an MCP-shaped error result (isError = true, one
\* content element): it neither throws nor returns a bare string.
C7_ChildFailureIsMcpError ==
    (IsCall /\ exchange[1].disposition = "childFailure") =>
        /\ exchange[1].how = "return"
        /\ IsMcpError(exchange[1].value)

\* C8: when the child named by the entry's serverAlias is not in the active
\* map, the handler forwards nothing and answers with an MCP error result
\* rather than raising an exception.
C8_MissingServerIsMcpError ==
    (IsCall /\ exchange[1].disposition = "serverMissing") =>
        /\ exchange[1].forwarded = NoForward
        /\ exchange[1].how = "return"
        /\ IsMcpError(exchange[1].value)

\* C9: for a successful forwarded call of any kind the handler returns
\* exactly the value the child client returned.
C9_ResultVerbatim ==
    (IsCall /\ exchange[1].disposition = "success") =>
        /\ exchange[1].how = "return"
        /\ DOMAIN exchange[1].value = DOMAIN exchange[1].raw[1]
        /\ exchange[1].value = exchange[1].raw[1]

ExpectedOp(kind) ==
    IF kind = "tool" THEN "callTool"
    ELSE IF kind = "resource" THEN "readResource"
    ELSE "getPrompt"

\* C10: the child-side operation matches the kind of the capability: a tool
\* issues callTool, a resource readResource, a prompt getPrompt.
C10_OperationMatchesKind ==
    WasForwarded => exchange[1].forwarded.op = ExpectedOp(exchange[1].kind)

(***************************************************************************)
(* Claims about the inbound side of the transport (SpecFraming).           *)
(***************************************************************************)
IsWellFormed(line) == IsJsonText(Trim(line))
IsBlank(line) == Trim(line) = <<>>
IsMalformed(line) == ~IsBlank(line) /\ ~IsWellFormed(line)

\* The objects of the well-formed lines written, in the order written.
WrittenObjects ==
    LET wf == SelectSeq(lines, IsWellFormed)
    IN  [i \in 1..Len(wf) |-> JsonParse(Trim(wf[i]))]

MalformedCount == Len(SelectSeq(lines, IsMalformed))

IsAscii(text) == \A i \in 1..Len(text) : text[i] # "E9"

\* The members of an object other than its string value.
Shape(o) == [jsonrpc |-> o.jsonrpc, result |-> o.result, topSc |-> o.topSc]

\* C15 as stated: every delivered message whose line carried
\* result.structuredContent: null has result.structuredContent = {}.
C15_EveryNullResultRewritten ==
    \A i \in 1..Len(received) :
        (i <= Len(WrittenObjects) /\ WrittenObjects[i].result = "Rn")
            => received[i].result = "Ro"

\* C15 (amended): a delivered message whose line is a JSON-RPC 2.0 message
\* with result.structuredContent: null has result.structuredContent = {};
\* every other delivered message has the members of its line unchanged: a
\* null in a message that is not JSON-RPC 2.0, in another field of result or
\* outside result stays null, and an ASCII string value is delivered as
\* written.
C15_NullRewrittenOnlyInJsonRpcResult ==
    /\ Len(received) <= Len(WrittenObjects)
    /\ \A i \in 1..Len(received) :
           LET o == WrittenObjects[i] IN
           /\ Shape(received[i])
                  = [jsonrpc |-> o.jsonrpc,
                     result  |-> IF o.jsonrpc /\ o.result = "Rn"
                                 THEN "Ro" ELSE o.result,
                     topSc   |-> o.topSc]
           /\ IsAscii(o.text) => received[i].text = o.text

\* C15 witness: every byte has arrived, a JSON-RPC 2.0 result with a null
\* structuredContent was delivered rewritten and an object that is not
\* JSON-RPC 2.0 was delivered with its null.
C15_Witness ==
    /\ wire = <<>>
    /\ Len(received) = 2
    /\ \E i, j \in 1..2 :
           /\ WrittenObjects[i].jsonrpc /\ WrittenObjects[i].result = "Rn"
           /\ received[i].result = "Ro"
           /\ ~WrittenObjects[j].jsonrpc /\ received[j].result = "Rn"

IsPost == lastHttp # <<>> /\ lastHttp[1].verb = "POST"

KeysOf(map) == {e.sessionId : e \in map}

\* The request carried no session id, or one no session of the map has.
NoValidSession(r) ==
    ~TruthyHeader(r.header) \/ r.header \notin KeysOf(r.before)

SessionlessInitialize(r) ==
    r.verb = "POST" /\ ~TruthyHeader(r.header) /\ r.init

C12_InvalidSessionRejected ==
    lastHttp # <<>> =>
        LET r == lastHttp[1] IN
        (NoValidSession(r) /\ ~SessionlessInitialize(r)) =>
            /\ r.status = 400
            /\ r.handledBy = 0
            /\ r.after = r.before
            /\ r.verb = "POST" => r.errorCode = -32000 /\ r.respId = "null"

\* C13: when a transport closes, the entry of its session leaves the map and
\* the other entries stay; no closed session has an entry afterwards, and a
\* request that carries the id of a closed session is answered 400 and
\* reaches no transport.
C13_ClosedSessionRemoved ==
    [][/\ \A t \in 1..Len(httpTransports) :
              (~httpTransports[t].closed /\ httpTransports'[t].closed) =>
                  transports' = {e \in transports : e.transport # t}
       /\ \A t \in 1..Len(httpTransports') :
              httpTransports'[t].closed =>
                  /\ t \notin {e.transport : e \in transports'}
                  /\ httpTransports'[t].sessionId \notin
                         {e.sessionId : e \in transports'}
       /\ (lastHttp' # <<>> /\ lastHttp'[1].header \in lastHttp'[1].closedBefore)
              => /\ lastHttp'[1].status = 400
                 /\ lastHttp'[1].handledBy = 0]_vars

\* C13 witness: of two sessions the first was closed, the second is still
\* in the map, and a request carrying the closed id was answered 400.
C13_Witness ==
    /\ Len(httpTransports) = 2
    /\ httpTransports[1].closed
    /\ transports = {[sessionId |-> UuidPool[2], transport |-> 2]}
    /\ lastHttp # <<>>
    /\ lastHttp[1].header = UuidPool[1]
    /\ lastHttp[1].header \in lastHttp[1].closedBefore
    /\ lastHttp[1].status = 400

\* C14: the answer to a POST that a session's transport was handling when
\* an exception was raised is the JSON-RPC error -32003 and carries the
\* request's id whenever the request has one, and null only when it has
\* none.
C14_ErrorEchoesRequestId ==
    (IsPost /\ lastHttp[1].errorCode = -32003 /\ lastHttp[1].handledBy # 0) =>
        /\ lastHttp[1].status = 500
        /\ lastHttp[1].respId =
               IF lastHttp[1].id = NoId THEN "null" ELSE lastHttp[1].id

C18_SpawnFailureIsolated ==
    (spawnFailed # {} /\ exitCode \notin {0, KilledBySignal}) =>
        /\ exitCode = Running
        /\ killed = {}

\* The child whose bring-up is in progress.
BringingUp(a) ==
    /\ pc \in {"awaitConnect", "spawnError"}
    /\ idx <= Len(ConfigOrder)
    /\ serverName = a

\* C19: a child whose connect (or initialize handshake) failed is not in the
\* active map once the supervisor has moved on: every child of the map has
\* connected or is the one being brought up.
C19_FailedChildDiscarded ==
    \A a \in spawnedServers : a \in connected \/ BringingUp(a)

ListAwaits == {"awaitListTools", "awaitListResources", "awaitListPrompts"}

\* What a category contributes for a child, given how its list call ended.
Contribution(a, k) == IF listOutcome[k] = "ok" THEN CapsOf(a, k) ELSE <<>>

\* C20: a list call that ends, well or badly, leaves the child in the active
\* map and the router running and lets discovery go on with the next step;
\* when the entries of the child are pushed, a category whose call raised an
\* error or answered without an array adds nothing and every category whose
\* call succeeded adds all the entries the child reported.
C20_ListCallsFailIndependently ==
    [][/\ (pc \in ListAwaits /\ listOutcome' # listOutcome) =>
              /\ spawnedServers' = spawnedServers
              /\ exitCode' = Running
              /\ idx' = idx
              /\ pc' \in (ListAwaits \cup {"push"}) \ {pc}
       /\ (pc = "push" /\ pc' # "exited") =>
              /\ unifiedTools' =
                     unifiedTools
                         \o MapTools(serverName, Contribution(serverName, "tool"))
              /\ unifiedResources' =
                     unifiedResources
                         \o MapResources(serverName,
                                Contribution(serverName, "resource"))
              /\ unifiedPrompts' =
                     unifiedPrompts
                         \o MapPrompts(serverName,
                                Contribution(serverName, "prompt"))
              /\ spawnedServers' = spawnedServers
              /\ pc' = "spawnLoop"]_vars

\* C20 witness: child a, whose tools are never none, has been discovered:
\* its listTools() failed, its listResources() and listPrompts() succeeded,
\* its resource and its prompt are in the lists and it is in the active map.
C20_Witness ==
    /\ pc = "spawnLoop"
    /\ idx = 2
    /\ "a" \in spawnedServers
    /\ "a" \notin closed
    /\ unifiedTools = <<>>
    /\ unifiedResources = MapResources("a", childCaps["a"].resources)
    /\ unifiedPrompts = MapPrompts("a", childCaps["a"].prompts)
    /\ unifiedResources # <<>>
    /\ unifiedPrompts # <<>>

(***************************************************************************)
(* Claims about the order and the contents of the registry (Spec).         *)
(***************************************************************************)
\* Position of an alias in the configuration; 0 for a name not in it.
ConfigIndex(alias) ==
    IF \E i \in 1..Len(ConfigOrder) : ConfigOrder[i] = alias
    THEN CHOOSE i \in 1..Len(ConfigOrder) : ConfigOrder[i] = alias
    ELSE 0

\* First position at which the child reported the capability.
ReportedIndex(alias, k, original) == IndexOf(CapsOf(alias, k), original)

\* Entry i stands before entry j as configuration order, then reported
\* order, demand (entries of names outside the configuration apart).
InOrder(k, ai, oi, aj, oj) ==
    (ai \in Children /\ aj \in Children) =>
        \/ ConfigIndex(ai) < ConfigIndex(aj)
        \/ /\ ai = aj
           /\ ReportedIndex(ai, k, oi) <= ReportedIndex(aj, k, oj)

RebuildsDone == \A c \in Children, k \in Kinds : pendingRebuild[c, k] = 0

StatsUri == "stats://mcp-router-server"

\* C22: whenever the router is listening, the resource
\* stats://mcp-router-server is registered on the outward server under
\* exactly that URI and a read of it is served by the router itself.
C22_StatsResourcePresent ==
    pc = "listening" =>
        /\ StatsUri \in Keys(registeredResources)
        /\ StatsUri \in RequestIds("resource")
        /\ \A r \in registeredResources :
               r.key = StatsUri => r.meta.serverName \notin Children

\* Children a process was ever requested for.
Attempted ==
    spawnedServers \cup closed \cup killed \cup connected \cup spawnFailed

\* C23: a server with disabled = true is never spawned, is never in the
\* active map and has no entry in the registry; the other servers are taken
\* in configuration order: one is attempted only when the loop stands at it
\* or has passed it, and every enabled server the loop has passed was
\* attempted.
C23_DisabledNeverSpawned ==
    /\ \A d \in Disabled :
           /\ d \notin Attempted
           /\ \A e \in AllEntries : e.serverName # d
           /\ WasForwarded => exchange[1].forwarded.to # d
    /\ \A i \in 1..Len(ConfigOrder) :
           /\ ConfigOrder[i] \in Attempted => i <= idx
           /\ (i < idx /\ ConfigOrder[i] \notin Disabled)
                  => ConfigOrder[i] \in Attempted

\* C23 witness: the loop has passed the disabled server and both enabled
\* servers are running, the router listening.
C23_Witness ==
    /\ pc = "listening"
    /\ spawnedServers = {c \in Children : c \notin Disabled}
    /\ idx > ConfigIndex("d")
    /\ "d" \in Disabled

\* C24: a server whose type is not stdio is skipped: no process is spawned
\* for it, it never enters the active map and it contributes no entry.
C24_NonStdioSkipped ==
    \A c \in Children :
        ConfigType(c) # "stdio" =>
            /\ c \notin Attempted
            /\ \A e \in AllEntries : e.serverName # c

(***************************************************************************)
(* Claims about the outbound side of the transport (SpecSend).             *)
(***************************************************************************)
\* The chunks the sends that wrote should have put on the stream, in call
\* order.
RECURSIVE ExpectedChunks(_)
ExpectedChunks(ss) ==
    IF ss = <<>> THEN <<>>
    ELSE (IF Head(ss).wrote
          THEN <<JsonStringify(Head(ss).message) \o <<LF>>>> ELSE <<>>)
         \o ExpectedChunks(Tail(ss))

\* C25 as stated: every send call has written its message, once.
C25_EverySendWrites ==
    /\ Len(_output.written) = Len(sends)
    /\ \A i \in 1..Len(sends) :
           _output.written[i] = JsonStringify(sends[i].message) \o <<LF>>

\* C25 (amended): a send on a writable stream writes the serialized message
\* followed by one newline exactly once, and the writes are on the stream in
\* call order; its promise is resolved at the call when write() accepted the
\* chunk without backpressure, and otherwise is not resolved before a drain
\* event later than the call; a send on a stream that is no longer writable
\* writes nothing and its promise is rejected.
C25_SendWritesOnceInOrder ==
    /\ _output.written = ExpectedChunks(sends)
    /\ \A i \in 1..Len(sends) :
           LET c == sends[i] IN
           /\ c.wrote = (c.state # "rejected")
           /\ (c.wrote /\ c.canWrite) =>
                  c.state = "resolved" /\ c.drainsAtResolve = c.drainsAtCall
           /\ (c.wrote /\ ~c.canWrite) =>
                  \/ c.state = "waiting"
                  \/ /\ c.state = "resolved"
                     /\ c.drainsAtResolve > c.drainsAtCall
                     /\ c.drainsAtResolve <= _output.drains

\* C25 witness: a send met a full buffer and was resolved by a drain event,
\* an earlier one was accepted at once, and a send made after close() was
\* rejected.
C25_Witness ==
    \E i, j, k \in 1..Len(sends) :
        /\ i < j /\ j < k
        /\ sends[i].wrote /\ sends[i].canWrite
        /\ sends[j].wrote /\ ~sends[j].canWrite
        /\ sends[j].state = "resolved"
        /\ sends[k].state = "rejected"
        /\ Len(_output.written) = k - 1

(***************************************************************************)
(* Claims about forwarded calls in time (SpecCalls).                       *)
(***************************************************************************)
\* C26: a call forwarded to a child whose configuration sets a timeout is
\* not left waiting for a response beyond that timeout: by then it has
\* failed and the handler has resumed.
C26_ConfiguredTimeoutApplies ==
    (Pending /\ ConfigTimeout(exchange[1].forwarded.to) > 0) =>
        exchange[1].waited <= ConfigTimeout(exchange[1].forwarded.to)

(***************************************************************************)
(* Claims about fatal errors and the order of startup (Spec).              *)
(***************************************************************************)
\* The states in which a fatal error is about to be handled: main() has
\* rejected, or an exception nobody catches has been thrown.
FatalPcs == {"mainCatch", "spawnError"}

\* C28: a fatal startup error or an uncaught exception, unless a signal
\* ends the process first, is followed by the exit with code 1, and the
\* step that exits with code 1 sends a termination signal to every child of
\* the active map and leaves the map and the three lists empty.
C28_FatalErrorStopsChildrenExitsOne ==
    [][/\ (pc \in FatalPcs /\ pc' # pc /\ exitCode' # KilledBySignal)
            => exitCode' = 1
       /\ (exitCode = Running /\ exitCode' = 1) =>
            /\ killed' = killed \cup spawnedServers
            /\ spawnedServers' = {}
            /\ unifiedTools' = <<>>
            /\ unifiedResources' = <<>>
            /\ unifiedPrompts' = <<>>
            /\ pc' = "exited"]_vars

\* C28 witness: main() rejected while both children were running, and the
\* router has exited with code 1 after signalling both.
C28_Witness ==
    /\ pc = "exited"
    /\ exitCode = 1
    /\ spawnFailed = {}
    /\ closed = {}
    /\ killed = Children
    /\ spawnedServers = {}

\* Every entry of a unified list has a handler registered for it.
AllHaveHandlers(list, reg) ==
    \A i \in 1..Len(list) : \E r \in reg : r.meta = list[i]

\* C29: children are spawned only once the configuration is loaded, and
\* spawnServers without a configuration throws without spawning; handlers
\* are registered only once the loop has passed every server; the router
\* starts to listen only after every enabled server was attempted and every
\* entry of the three lists has its handler; no request is taken by the
\* outward server before the router listens.
C29_StartupOrder ==
    [][/\ (spawnedServers' \ spawnedServers # {}) => config
       /\ (pc = "spawnServers" /\ ~config /\ pc' # pc /\ exitCode' = Running)
              => (pc' = "mainCatch" /\ Attempted' = {})
       /\ (registeredTools' # registeredTools
              \/ registeredResources' # registeredResources
              \/ registeredPrompts' # registeredPrompts)
              => (config /\ idx > Len(ConfigOrder))
       /\ (pc # "listening" /\ pc' = "listening") =>
              /\ config
              /\ idx > Len(ConfigOrder)
              /\ \A c \in Children \ Disabled : c \in Attempted
              /\ AllHaveHandlers(unifiedTools', registeredTools')
              /\ AllHaveHandlers(unifiedResources', registeredResources')
              /\ AllHaveHandlers(unifiedPrompts', registeredPrompts')
       /\ (exchange' # exchange) => pc = "listening"]_vars

\* C29 witness: the router listens with both enabled children running and
\* a handler registered for a discovered tool, and has taken a request.
C29_Witness ==
    /\ pc = "listening"
    /\ spawnedServers = Children \ Disabled
    /\ unifiedTools # <<>>
    /\ AllHaveHandlers(unifiedTools, registeredTools)
    /\ exchange # <<>>

(***************************************************************************)
(* Claims about replies to several sessions (SpecHttp).                    *)
(***************************************************************************)
\* C30: the reply to a request that a session's transport accepted is handed
\* to the send of that same transport, whatever initialize, request and
\* close events of other sessions came before.
C30_ReplyOnOwnTransport ==
    (/\ lastHttp # <<>>
     /\ lastHttp[1].verb = "POST"
     /\ lastHttp[1].status = 200
     /\ lastHttp[1].id # NoId
     /\ lastHttp[1].handledBy # 0)
        => lastHttp[1].sentOn = lastHttp[1].handledBy

(***************************************************************************)
(* Claims about rebuilds of the registry (Spec).                           *)
(***************************************************************************)
\* The entries of a unified list that carry the unified identifier of a
\* capability of child c, in list order.
EntriesOf(list, metas) ==
    SelectSeq(list, LAMBDA e : \E i \in 1..Len(metas) : metas[i] = e)

StartupEntries(c) ==
    {[name |-> c \o "_" \o x, serverName |-> c, originalToolName |-> x] :
        x \in UNION {{CapsOf(c, k)[i] : i \in 1..Len(CapsOf(c, k))} :
                         k \in Kinds}}

\* C32: every entry of the registry, whether startup discovery or a rebuild
\* pushed it, is an entry startup discovery produces for a configured child:
\* identifier alias_original, serverName the configured alias, the original
\* name or URI as reported.
C32_RebuildEntriesAsStartup ==
    \A e \in AllEntries : \E c \in Children : e \in StartupEntries(c)

\* C36: when a SIGINT or SIGTERM ends the router, at whatever point of
\* startup or later, every child of the active map has been sent a
\* termination signal by the step that ends the process.
C36_SignalAlwaysStopsChildren ==
    [][(exitCode = Running /\ exitCode' \in {0, KilledBySignal}) =>
          spawnedServers \subseteq killed']_vars

\* stopAllServers has run: the router ended with the code of one of the
\* handlers that call it.
Stopped == exitCode \in {0, 1}

\* C37: once stopAllServers has completed, the active map and the three
\* lists are empty, and no later step (a close event of a killed child, a
\* list response that was outstanding) puts anything into them.
C37_StaysEmptyAfterStop ==
    [][(Stopped \/ exitCode' \in {0, 1}) =>
          /\ spawnedServers' = {}
          /\ unifiedTools' = <<>>
          /\ unifiedResources' = <<>>
          /\ unifiedPrompts' = <<>>]_vars

\* C37 witness: stopAllServers ran while a list call of a rebuild to a
\* running child was outstanding; the child was killed and nothing is left.
C37_Witness ==
    /\ Stopped
    /\ \E c \in killed \ closed, k \in Kinds :
           /\ pendingRebuild[c, k] > 0
           /\ CapsOf(c, k) # <<>>
    /\ spawnedServers = {}
    /\ unifiedTools = <<>>
    /\ unifiedResources = <<>>
    /\ unifiedPrompts = <<>>

(***************************************************************************)
(* Claims about the settling of send (SpecSendLive).                       *)
(***************************************************************************)
\* C35: every promise send returned settles: a send that waits for 'drain'
\* is resolved or rejected later, also when the stream is ended meanwhile.
C35_EverySendSettles ==
    \A i \in 1..MaxSends :
        (Len(sends) >= i /\ sends[i].state = "waiting")
            ~> (Len(sends) >= i /\ sends[i].state # "waiting")

(***************************************************************************)
(* Claims about exceptions of HTTP requests (SpecHttp).                    *)
(***************************************************************************)
\* C34: handling a request on /mcp that reached the transport of a session,
\* whatever the verb and whether or not the transport raises an exception,
\* leaves the router running and stops no child.
C34_HttpExceptionIsolated ==
    [][(lastHttp' # lastHttp /\ lastHttp'[1].handledBy # 0) =>
          /\ exitCode' = Running
          /\ pc' = "listening"
          /\ killed' = killed
          /\ spawnedServers' = spawnedServers]_vars

(***************************************************************************)
(* Claims about handler registration (SpecRegister).                       *)
(***************************************************************************)
\* C33: whatever the children reported (zero, one or several tools of
\* different unified names), the registration loops of main() complete: no
\* register call finds its identifier taken, and main() goes on to listen.
C33_RegistrationCompletes ==
    [][(pc = "register" /\ pc' # pc) =>
          /\ pc' = "listening"
          /\ AllHaveHandlers(unifiedTools, registeredTools')]_vars

(***************************************************************************)
(* Claims about the conversion of schemas (SpecConvert).                   *)
(***************************************************************************)
\* Whether a value of the kind is of the JSON Schema type.
JsonMatches(type, value) ==
    IF type = "integer" THEN value = "number" ELSE value = type

\* Whether the child's schema admits the argument object: every required
\* property is there and every property that is there is of its type.
SchemaAdmits(schema, args) ==
    /\ schema.required \subseteq MemberKeys(args)
    /\ \A a \in args : \A prop \in schema.properties :
           a.key = prop.key => JsonMatches(prop.type, a.value)

\* C38: a schema of type object with properties is registered as a shape
\* with exactly the keys of properties, each mapped by its declared type,
\* any other schema as no shape; and an argument object the child's schema
\* admits, a property outside required left out or not, is accepted by the
\* outward server.
C38_ConversionKeepsRequired ==
    /\ inputShape # <<>> =>
           LET schema == toolInputSchema[1]
               out    == inputShape[1]
           IN  IF schema.defined /\ schema.type = "object"
                     /\ schema.hasProperties
               THEN /\ out.defined
                    /\ out.shape
                           = {[key |-> prop.key, zod |-> ZodOf(prop.type)] :
                                 prop \in schema.properties}
               ELSE ~out.defined
    /\ (validated # <<>> /\ SchemaAdmits(toolInputSchema[1],
                                          validated[1].args))
           => validated[1].accepted

(***************************************************************************)
(* Claims about stored schemas (SpecSchemas).                              *)
(***************************************************************************)
StoredObjects ==
    UNION {Reachable(heap, storedSchemas[i]) : i \in 1..Len(storedSchemas)}

\* C27: the schema stored in an entry has, whatever is assigned afterwards
\* to the objects of the discovery response, the value the discovered schema
\* had when the entry was pushed, and shares no object with the response.
C27_SchemaStoredByValue ==
    /\ Len(storedSchemas) \in {0, Len(responseSchemas)}
    /\ \A i \in 1..Len(storedSchemas) :
           Deref(heap, storedSchemas[i]) = insertedValues[i]
    /\ StoredObjects \cap ResponseObjects = {}

\* C27 witness: a schema with a nested object was stored and the nested
\* object of the response was changed afterwards: the stored schema differs
\* from the response's and still has the value it was stored with.
C27_Witness ==
    \E i \in 1..Len(storedSchemas) :
        /\ storedSchemas[i] # 0
        /\ heap[storedSchemas[i]].child # 0
        /\ Deref(heap, responseSchemas[i])[1].child
               # Deref(heap, storedSchemas[i])[1].child
        /\ Deref(heap, storedSchemas[i]) = insertedValues[i]

====
